---------------------------- MODULE Spec2Model ----------------------------
(***************************************************************************)
(* State-machine model of the SmartSync ML scripts:                        *)
(*   ml/scripts/deploy_model.py    (upload + Firestore configuration)      *)
(*   ml/scripts/convert_tflite.py  (Keras -> TFLite conversion pipeline)   *)
(*   ml/scripts/train_model.py     (data collection + training pipeline)   *)
(* Every script is a sequential main(); one behaviour of the model is one  *)
(* run of one script.  pc is the position of the run in its main(); the    *)
(* results of the library calls (file system, cloud SDK, TensorFlow) are   *)
(* inputs drawn where the call is made.                                    *)
(***************************************************************************)
EXTENDS Integers, Sequences, FiniteSets, TLC

VARIABLES
    script,        \* which script this run executes
    pc,            \* position in the script's main()
    exitStatus,    \* "running", "0" (main returned), "1" (sys.exit(1) or uncaught exception)
    trace,         \* externally visible steps of the run, in order
    tfliteDir,     \* files present in models/tflite (TFLITE_DIR)
    tfliteContent, \* contents of the .tflite files, per model
    \* ---- deploy_model.py ----
    seenLocal,     \* deploy main: models whose .tflite existed at line 259
    firebase,      \* result of initialize_firebase: "unset", "ok", "none"
    cur,           \* index in Models of the model main is handling
    upChecksum,    \* upload_model local: checksum
    upResult,      \* value returned by the last upload_model call
    model_info,    \* deploy main: model_info dict
    uploadReturns, \* history: value each upload_model call returned to main
    blobs,         \* Firebase Storage bucket: blob name -> blob state
    configDoc,     \* data passed to system_config/ml_models .set(), or NoDoc
    configRet,     \* value returned by update_firestore_config
    versionDocs,   \* documents added to ml_model_versions
    all_verified,  \* value returned by verify_deployment
    \* ---- convert_tflite.py ----
    savedModels,   \* directories present in models/saved_models (MODELS_DIR)
    processed,     \* data/processed: hourly_features.csv and the scaler pickles
    calib,         \* samples the representative dataset generator yielded
    conversion_results, \* convert main: conversion_results dict
    tfliteVerified,\* models whose .tflite passed verify_tflite_model in this run
    assetsDir,     \* files present in app/assets/models (APP_ASSETS_DIR)
    copyIdx,       \* copy_to_flutter_assets: position in tflite_files / json_files
    copied_count,  \* copy_to_flutter_assets local
    copied,        \* copy_to_flutter_assets: files shutil.copy2 copied in this call
    copy_success,  \* convert main: copy_success
    \* ---- train_model.py ----
    sensor_df,     \* train main: origin and hourly size of sensor_df
    action_df,     \* train main: origin of action_df
    rawDir,        \* files written to data/raw
    nSequences,    \* train main: len(X) after create_sequences
    \* ---- DataPreprocessor of the training scripts ----
    sensor_records,  \* the sensor frame: records per clock hour
    seqLength,       \* create_sequences argument sequence_length
    hourly_df,       \* frame returned by create_hourly_features
    sequences,       \* value returned by create_sequences
    \* ---- model metadata files ----
    training_metadata, \* save_model_metadata: what it found at <model>_v1/metadata.json
    jsonContent,     \* contents of the .json files of models/tflite, per model
    \* ---- collect_firebase_data.py ----
    all_data,        \* documents the running collect function read from its query
    collected,       \* collect main: the DataFrames the collect functions returned
    \* ---- tfjs/deploy_tfjs.py ----
    tfjs_files,      \* upload_tfjs_model: list(model_dir.glob("*"))
    uploaded_files,  \* upload_tfjs_model local
    tfjs_model_info, \* deploy_tfjs main: model_info
    scaler_url,      \* deploy_tfjs main: scaler_url
    \* ---- runs one after the other ----
    runs,            \* number of script runs started so far
    \* ---- train_smart_home.py ----
    outputFiles      \* files main wrote under data/processed and in schedule_predictor_v1

vars == << script, pc, exitStatus, trace, tfliteDir, tfliteContent,
           seenLocal, firebase, cur, upChecksum, upResult, model_info,
           uploadReturns, blobs, configDoc, configRet, versionDocs, all_verified,
           savedModels, processed, calib, conversion_results, tfliteVerified,
           assetsDir, copyIdx, copied_count, copied, copy_success,
           sensor_df, action_df, rawDir, nSequences,
           sensor_records, seqLength, hourly_df, sequences,
           training_metadata, jsonContent, all_data, collected,
           tfjs_files, uploaded_files, tfjs_model_info, scaler_url, runs,
           outputFiles >>

deployVars  == << seenLocal, firebase, upChecksum, upResult, model_info,
                  uploadReturns,
                  blobs, configDoc, configRet, versionDocs, all_verified >>
convertVars == << savedModels, processed, calib, conversion_results,
                  tfliteVerified, assetsDir, copyIdx, copied_count, copied,
                  copy_success >>
trainVars   == << sensor_df, action_df, rawDir, nSequences >>
preprocessVars == << sensor_records, seqLength, hourly_df, sequences >>
\* variables of the parts modelled after the three scripts above
metadataVars == << training_metadata, jsonContent >>
collectVars == << all_data, collected >>
tfjsVars    == << tfjs_files, uploaded_files, tfjs_model_info, scaler_url >>
otherVars   == << preprocessVars, metadataVars, collectVars, tfjsVars, runs,
                  outputFiles >>
\* variables of the script runs
runVars     == << tfliteDir, tfliteContent, cur, deployVars, convertVars,
                  trainVars >>

---------------------------------------------------------------------------
(* Shared values *)

Models == << "schedule_predictor", "anomaly_detector" >>
ModelNames == { Models[i] : i \in 1..Len(Models) }

None == "None"

\* Process exit status: main returned; sys.exit(1) or an uncaught exception
EXIT_SUCCESS == "0"
EXIT_FAILURE == "1"

\* Values a Python function returns: None, or a dict
NoneResult == [ kind |-> "None" ]
Pending == [ kind |-> "pending" ]
NoChecksum == << >>

\* Number of distinct file contents a .tflite file is drawn from.
NumContents == 2
Contents == 1..NumContents

TfliteFile(m) == << m, ".tflite" >>
JsonFile(m)   == << m, ".json" >>
TfliteFiles == { TfliteFile(m) : m \in ModelNames }
JsonFiles   == { JsonFile(m) : m \in ModelNames }

---------------------------------------------------------------------------
(* deploy_model.py *)

MODELS_PATH == "models/"
STORAGE_BUCKET == "smartsync-cf370.firebasestorage.app"

\* model_path.stat().st_size / 1024 / 1024
FileSize(content) == << "MB", content >>

\* hashlib.md5 over the file contents: distinct contents, distinct digests.
calculate_checksum(content) == << "md5", content >>

\* f"{MODELS_PATH}{model_name}_v1.tflite"
BlobName(m) == << MODELS_PATH, m, "_v1.tflite" >>
\* f"{MODELS_PATH}{model_name}_v1_metadata.json"
MetadataBlobName(m) == << MODELS_PATH, m, "_v1_metadata.json" >>
\* tfjs/deploy_tfjs.py: the files of models/tfjs/schedule_predictor_v1 and
\* their blobs, f"models/{model_name}_v1/{file_path.name}" (line 49), and the
\* scaler blob (line 103)
TfjsFiles == { "model.json", "group1-shard1of1.bin" }
TfjsBlobName(f) == << MODELS_PATH, "schedule_predictor", "_v1/", f >>
ScalerBlobName == << MODELS_PATH, "schedule_predictor", "_v1/", "scaler.json" >>
BlobNames ==
    { BlobName(m) : m \in ModelNames } \cup { MetadataBlobName(m) : m \in ModelNames }
        \cup { TfjsBlobName(f) : f \in TfjsFiles } \cup { ScalerBlobName }

\* blob.public_url
PublicUrl(blob_name) == << "https://storage.googleapis.com", STORAGE_BUCKET, blob_name >>

NoBlob == [ present |-> FALSE, public |-> FALSE, checksum_md5 |-> NoChecksum ]
NoDoc == [ written |-> FALSE, models |-> << >> ]
EmptyDict == << >>

\* d | {k: v}
DictSet(d, k, v) == [ x \in (DOMAIN d) \cup {k} |-> IF x = k THEN v ELSE d[x] ]

Exit(status) ==
    /\ pc' = "exited"
    /\ exitStatus' = status

\* An environment step: another process removes a local model file while the
\* deployment runs (upload_model re-checks model_path.exists() for this reason).
LocalFileRemoved ==
    /\ script = "deploy"
    /\ pc \in { "d_model_exists", "u_exists", "u_checksum" }
    /\ \E f \in tfliteDir :
          /\ f \in TfliteFiles
          /\ tfliteDir' = tfliteDir \ {f}
    /\ UNCHANGED << script, otherVars, pc, exitStatus, trace, tfliteContent, cur,
                    deployVars, convertVars, trainVars >>

\* main, lines 255-263: neither model exists locally -> sys.exit(1)
DeployCheckLocal ==
    /\ script = "deploy" /\ pc = "d_check_local"
    /\ seenLocal' = { m \in ModelNames : TfliteFile(m) \in tfliteDir }
    /\ IF seenLocal' = {}
          THEN Exit(EXIT_FAILURE)
          ELSE pc' = "d_init" /\ UNCHANGED exitStatus
    /\ UNCHANGED << script, otherVars, trace, tfliteDir, tfliteContent, firebase, cur,
                    upChecksum, upResult, model_info, uploadReturns, blobs, configDoc,
                    configRet, versionDocs, all_verified, convertVars, trainVars >>

\* initialize_firebase, lines 35-68: (None, None) when the key file is missing
\* or the SDK raises, (bucket, db) otherwise.
initialize_firebase(credExists, sdkOk) ==
    IF ~credExists THEN "none"
    ELSE IF sdkOk THEN "ok" ELSE "none"

\* main, lines 265-274
DeployInit ==
    /\ script = "deploy" /\ pc = "d_init"
    /\ \E credExists \in BOOLEAN, sdkOk \in BOOLEAN :
          firebase' = initialize_firebase(credExists, sdkOk)
    /\ IF firebase' = "none"
          THEN Exit(EXIT_FAILURE) /\ UNCHANGED << cur, model_info >>
          ELSE /\ pc' = "d_model_exists"
               /\ cur' = 1
               /\ model_info' = EmptyDict
               /\ UNCHANGED exitStatus
    /\ UNCHANGED << script, otherVars, trace, tfliteDir, tfliteContent, seenLocal,
                    upChecksum, upResult, uploadReturns, blobs, configDoc,
                    configRet, versionDocs, all_verified, convertVars, trainVars >>

\* main, lines 277 and 294: if <model>.exists(): upload_model(...)
DeployModelExists ==
    /\ script = "deploy" /\ pc = "d_model_exists"
    /\ IF TfliteFile(Models[cur]) \in tfliteDir
          THEN pc' = "u_exists" /\ UNCHANGED cur
          ELSE IF cur < Len(Models)
                  THEN pc' = "d_model_exists" /\ cur' = cur + 1
                  ELSE pc' = "d_check_info" /\ UNCHANGED cur
    /\ UNCHANGED << script, otherVars, exitStatus, trace, tfliteDir, tfliteContent,
                    seenLocal, firebase, upChecksum, upResult, model_info, uploadReturns,
                    blobs, configDoc, configRet, versionDocs, all_verified,
                    convertVars, trainVars >>

\* upload_model, lines 91-95
UploadExists ==
    /\ script = "deploy" /\ pc = "u_exists"
    /\ trace' = Append(trace, << "upload_model", Models[cur] >>)
    /\ IF TfliteFile(Models[cur]) \notin tfliteDir
          THEN upResult' = NoneResult /\ pc' = "d_record"
          ELSE upResult' = Pending /\ pc' = "u_checksum"
    /\ UNCHANGED << script, otherVars, exitStatus, tfliteDir, tfliteContent, seenLocal,
                    firebase, cur, upChecksum, model_info, uploadReturns, blobs, configDoc,
                    configRet, versionDocs, all_verified, convertVars, trainVars >>

\* upload_model, lines 97-116 and 132-134: stat() and calculate_checksum read
\* the file; either raises when the file is gone or unreadable.
UploadChecksum ==
    /\ script = "deploy" /\ pc = "u_checksum"
    /\ \E readable \in BOOLEAN :
          IF TfliteFile(Models[cur]) \in tfliteDir /\ readable
             THEN /\ upChecksum' = calculate_checksum(tfliteContent[Models[cur]])
                  /\ pc' = "u_upload"
                  /\ UNCHANGED upResult
             ELSE /\ upResult' = NoneResult
                  /\ pc' = "d_record"
                  /\ UNCHANGED upChecksum
    /\ UNCHANGED << script, otherVars, exitStatus, trace, tfliteDir, tfliteContent,
                    seenLocal, firebase, cur, model_info, uploadReturns, blobs, configDoc,
                    configRet, versionDocs, all_verified, convertVars, trainVars >>

\* upload_model, lines 106-118 and 132-134: blob.upload_from_filename
UploadFromFilename ==
    /\ script = "deploy" /\ pc = "u_upload"
    /\ trace' = Append(trace, << "upload_from_filename", BlobName(Models[cur]) >>)
    /\ \E ok \in BOOLEAN :
          IF ok
             THEN /\ blobs' = [ blobs EXCEPT ![BlobName(Models[cur])] =
                                  [ present |-> TRUE, public |-> FALSE,
                                    checksum_md5 |-> upChecksum ] ]
                  /\ pc' = "u_public"
                  /\ UNCHANGED upResult
             ELSE /\ upResult' = NoneResult
                  /\ pc' = "d_record"
                  /\ UNCHANGED blobs
    /\ UNCHANGED << script, otherVars, exitStatus, tfliteDir, tfliteContent, seenLocal,
                    firebase, cur, upChecksum, model_info, uploadReturns, configDoc,
                    configRet, versionDocs, all_verified, convertVars, trainVars >>

\* Variant of UploadMakePublic: make_public is called outside the try block,
\* so its exception leaves upload_model and main.
UploadMakePublicUnguarded ==
    /\ script = "deploy" /\ pc = "u_public"
    /\ trace' = Append(trace, << "make_public", BlobName(Models[cur]) >>)
    /\ \E ok \in BOOLEAN :
          IF ok
             THEN /\ blobs' = [ blobs EXCEPT ![BlobName(Models[cur])].public = TRUE ]
                  /\ upResult' = [ kind |-> "dict",
                                   url |-> PublicUrl(BlobName(Models[cur])),
                                   path |-> BlobName(Models[cur]),
                                   size_mb |-> FileSize(tfliteContent[Models[cur]]),
                                   checksum |-> upChecksum ]
                  /\ pc' = "d_record"
                  /\ UNCHANGED exitStatus
             ELSE /\ UNCHANGED << blobs, upResult >>
                  /\ pc' = "raised"
                  /\ exitStatus' = EXIT_FAILURE
    /\ UNCHANGED << script, otherVars, tfliteDir, tfliteContent, seenLocal,
                    firebase, cur, upChecksum, model_info, uploadReturns,
                    configDoc, configRet, versionDocs, all_verified,
                    convertVars, trainVars >>

\* upload_model, lines 119-134: blob.make_public, then the returned dict
UploadMakePublic ==
    /\ script = "deploy" /\ pc = "u_public"
    /\ trace' = Append(trace, << "make_public", BlobName(Models[cur]) >>)
    /\ \E ok \in BOOLEAN :
          IF ok
             THEN /\ blobs' = [ blobs EXCEPT ![BlobName(Models[cur])].public = TRUE ]
                  /\ upResult' = [ kind |-> "dict",
                                   url |-> PublicUrl(BlobName(Models[cur])),
                                   path |-> BlobName(Models[cur]),
                                   size_mb |-> FileSize(tfliteContent[Models[cur]]),
                                   checksum |-> upChecksum ]
             ELSE /\ upResult' = NoneResult
                  /\ UNCHANGED blobs
    /\ pc' = "d_record"
    /\ UNCHANGED << script, otherVars, exitStatus, tfliteDir, tfliteContent, seenLocal,
                    firebase, cur, upChecksum, model_info, uploadReturns, configDoc,
                    configRet, versionDocs, all_verified, convertVars, trainVars >>

\* Variant of DeployRecord: the second block was copied from the first and
\* still stores its entry under 'schedule_predictor'.
DeployRecordWrongKey ==
    /\ script = "deploy" /\ pc = "d_record"
    /\ uploadReturns' = DictSet(uploadReturns, Models[cur], upResult)
    /\ IF upResult.kind = "dict"
          THEN /\ model_info' = DictSet(model_info, Models[1],
                                  [ version |-> "1.0.0",
                                    url |-> upResult.url,
                                    checksum |-> upResult.checksum,
                                    size_mb |-> upResult.size_mb,
                                    path |-> upResult.path ])
               /\ pc' = "d_metadata"
               /\ UNCHANGED cur
          ELSE /\ UNCHANGED model_info
               /\ IF cur < Len(Models)
                     THEN pc' = "d_model_exists" /\ cur' = cur + 1
                     ELSE pc' = "d_check_info" /\ UNCHANGED cur
    /\ UNCHANGED << script, otherVars, exitStatus, trace, tfliteDir, tfliteContent,
                    seenLocal, firebase, upChecksum, upResult, blobs,
                    configDoc, configRet, versionDocs, all_verified,
                    convertVars, trainVars >>

\* main, lines 279-286 and 296-303: model_info[name] = {...} if the upload
\* returned a dict
DeployRecord ==
    /\ script = "deploy" /\ pc = "d_record"
    /\ uploadReturns' = DictSet(uploadReturns, Models[cur], upResult)
    /\ IF upResult.kind = "dict"
          THEN /\ model_info' = DictSet(model_info, Models[cur],
                                  [ version |-> "1.0.0",
                                    url |-> upResult.url,
                                    checksum |-> upResult.checksum,
                                    size_mb |-> upResult.size_mb,
                                    path |-> upResult.path ])
               /\ pc' = "d_metadata"
               /\ UNCHANGED cur
          ELSE /\ UNCHANGED model_info
               /\ IF cur < Len(Models)
                     THEN pc' = "d_model_exists" /\ cur' = cur + 1
                     ELSE pc' = "d_check_info" /\ UNCHANGED cur
    /\ UNCHANGED << script, otherVars, exitStatus, trace, tfliteDir, tfliteContent,
                    seenLocal, firebase, upChecksum, upResult, blobs,
                    configDoc, configRet, versionDocs, all_verified,
                    convertVars, trainVars >>

\* upload_metadata, lines 136-155: returns the url or None, never raises
upload_metadata(bs, m, uploadOk, publicOk) ==
    IF ~uploadOk THEN bs
    ELSE [ bs EXCEPT ![MetadataBlobName(m)] =
             [ present |-> TRUE, public |-> publicOk, checksum_md5 |-> NoChecksum ] ]

\* main, lines 288-291 and 305-308: the metadata JSON is uploaded when it
\* exists; main ignores the result
DeployMetadata ==
    /\ script = "deploy" /\ pc = "d_metadata"
    /\ IF JsonFile(Models[cur]) \in tfliteDir
          THEN /\ \E uploadOk \in BOOLEAN, publicOk \in BOOLEAN :
                     blobs' = upload_metadata(blobs, Models[cur], uploadOk, publicOk)
               /\ trace' = Append(trace, << "upload_metadata", Models[cur] >>)
          ELSE UNCHANGED << blobs, trace >>
    /\ IF cur < Len(Models)
          THEN pc' = "d_model_exists" /\ cur' = cur + 1
          ELSE pc' = "d_check_info" /\ UNCHANGED cur
    /\ UNCHANGED << script, otherVars, exitStatus, tfliteDir, tfliteContent, seenLocal,
                    firebase, upChecksum, upResult, model_info, uploadReturns, configDoc,
                    configRet, versionDocs, all_verified, convertVars, trainVars >>

\* Variant of DeployCheckInfo: the empty model_info is not checked.
DeployCheckInfoMissing ==
    /\ script = "deploy" /\ pc = "d_check_info"
    /\ pc' = "d_update_config"
    /\ UNCHANGED << script, otherVars, exitStatus, trace, tfliteDir, tfliteContent, cur,
                    deployVars, convertVars, trainVars >>

\* main, lines 310-312: no model uploaded -> sys.exit(1)
DeployCheckInfo ==
    /\ script = "deploy" /\ pc = "d_check_info"
    /\ IF DOMAIN model_info = {}
          THEN Exit(EXIT_FAILURE)
          ELSE pc' = "d_update_config" /\ UNCHANGED exitStatus
    /\ UNCHANGED << script, otherVars, trace, tfliteDir, tfliteContent, cur, deployVars,
                    convertVars, trainVars >>

\* update_firestore_config, lines 172-189: config_data['models']
ConfigModels(info) ==
    [ m \in DOMAIN info |->
        [ currentVersion |-> info[m].version,
          downloadUrl |-> info[m].url,
          checksum |-> info[m].checksum,
          sizeMB |-> info[m].size_mb,
          minAppVersion |-> "1.0.0",
          deployed |-> TRUE,
          modelPath |-> info[m].path ] ]

\* dict.update: d2's value for every key of d2, d1's for the other keys
DictUpdate(d1, d2) ==
    [ k \in (DOMAIN d1) \cup (DOMAIN d2) |-> IF k \in DOMAIN d2 THEN d2[k] ELSE d1[k] ]

\* Variant of FirestoreMerge: config_ref.set(config_data) without merge=True
\* replaces the document.
FirestoreOverwrite(doc, models) ==
    [ written |-> TRUE, models |-> models ]

\* config_ref.set(config_data, merge=True): the fields of config_data are
\* merged into the document, nested maps field by field
FirestoreMerge(doc, models) ==
    [ written |-> TRUE,
      models |-> [ m \in (DOMAIN doc.models) \cup (DOMAIN models) |->
                     IF m \notin DOMAIN models THEN doc.models[m]
                     ELSE IF m \notin DOMAIN doc.models THEN models[m]
                     ELSE DictUpdate(doc.models[m], models[m]) ] ]

\* Variant of DeployUpdateConfig: main ignores the value returned by
\* update_firestore_config.
DeployUpdateConfigUnchecked ==
    /\ script = "deploy" /\ pc = "d_update_config"
    /\ trace' = Append(trace, << "update_firestore_config" >>)
    /\ \E setOk \in BOOLEAN :
          IF setOk
             THEN /\ configDoc' = FirestoreMerge(configDoc, ConfigModels(model_info))
                  /\ configRet' = TRUE
             ELSE /\ configRet' = FALSE
                  /\ UNCHANGED configDoc
    /\ pc' = "d_history"
    /\ UNCHANGED << script, otherVars, exitStatus, tfliteDir, tfliteContent, seenLocal,
                    firebase, cur, upChecksum, upResult, model_info,
                    uploadReturns, blobs, versionDocs, all_verified,
                    convertVars, trainVars >>

\* main, lines 315 and 341-343, with update_firestore_config, lines 158-202:
\* config_ref.set(config_data, merge=True) returns or raises
DeployUpdateConfig ==
    /\ script = "deploy" /\ pc = "d_update_config"
    /\ trace' = Append(trace, << "update_firestore_config" >>)
    /\ \E setOk \in BOOLEAN :
          IF setOk
             THEN /\ configDoc' = FirestoreMerge(configDoc, ConfigModels(model_info))
                  /\ configRet' = TRUE
                  /\ pc' = "d_history"
                  /\ UNCHANGED exitStatus
             ELSE /\ configRet' = FALSE
                  /\ UNCHANGED configDoc
                  /\ Exit(EXIT_FAILURE)
    /\ UNCHANGED << script, otherVars, tfliteDir, tfliteContent, seenLocal, firebase, cur,
                    upChecksum, upResult, model_info, uploadReturns, blobs, versionDocs,
                    all_verified, convertVars, trainVars >>

\* create_model_version_history, lines 209-221: one document per model
VersionDoc(m, info) ==
    [ modelName |-> m, version |-> info[m].version,
      downloadUrl |-> info[m].url, checksum |-> info[m].checksum,
      sizeMB |-> info[m].size_mb, status |-> "active" ]

\* model_info.items(): insertion order, which is the order of Models
InfoOrder(info) == SelectSeq(Models, LAMBDA m : m \in DOMAIN info)

\* main, line 317, with create_model_version_history, lines 204-226: the
\* documents are set one by one; a set() that raises ends the loop (caught)
DeployVersionHistory ==
    /\ script = "deploy" /\ pc = "d_history"
    /\ trace' = Append(trace, << "create_model_version_history" >>)
    /\ \E written \in 0..Len(InfoOrder(model_info)) :
          versionDocs' = versionDocs \cup
              { VersionDoc(InfoOrder(model_info)[i], model_info) : i \in 1..written }
    /\ pc' = "d_verify"
    /\ UNCHANGED << script, otherVars, exitStatus, tfliteDir, tfliteContent, seenLocal,
                    firebase, cur, upChecksum, upResult, model_info, uploadReturns, blobs,
                    configDoc, configRet, all_verified, convertVars, trainVars >>

\* An environment step: another client of the bucket deletes an uploaded
\* model blob before the deployment is verified (verify_deployment checks
\* blob.exists() for this reason).
BlobRemoved ==
    /\ script = "deploy" /\ pc \in { "d_history", "d_verify" }
    /\ \E m \in DOMAIN model_info :
          /\ blobs[model_info[m].path].present
          /\ blobs' = [ blobs EXCEPT ![model_info[m].path] = NoBlob ]
    /\ UNCHANGED << script, otherVars, pc, exitStatus, trace, tfliteDir,
                    tfliteContent, seenLocal, firebase, cur, upChecksum, upResult,
                    model_info, uploadReturns, configDoc, configRet, versionDocs,
                    all_verified, convertVars, trainVars >>

\* main, lines 320-340, with verify_deployment, lines 229-249: blob.exists()
\* per model is True, False (the blob is not in the bucket) or raises;
\* all_verified is True only when every blob was found.
DeployVerify ==
    /\ script = "deploy" /\ pc = "d_verify"
    /\ \E found \in [ DOMAIN model_info -> { "True", "False", "raise" } ] :
          /\ \A m \in DOMAIN model_info :
                /\ found[m] = "True" => blobs[model_info[m].path].present
                /\ found[m] = "False" => ~blobs[model_info[m].path].present
          /\ all_verified' = (\A m \in DOMAIN model_info : found[m] = "True")
          /\ trace' = Append(Append(trace, << "verify_deployment", found >>),
                             IF all_verified' THEN << "DEPLOYMENT COMPLETE" >>
                                              ELSE << "completed with warnings" >>)
    /\ pc' = "exited"
    /\ exitStatus' = EXIT_SUCCESS
    /\ UNCHANGED << script, otherVars, tfliteDir, tfliteContent, seenLocal, firebase, cur,
                    upChecksum, upResult, model_info, uploadReturns, blobs, configDoc,
                    configRet, versionDocs, convertVars, trainVars >>

DeployNext ==
    \/ LocalFileRemoved
    \/ BlobRemoved
    \/ DeployCheckLocal
    \/ DeployInit
    \/ DeployModelExists
    \/ UploadExists
    \/ UploadChecksum
    \/ UploadFromFilename
    \/ UploadMakePublic
    \/ DeployRecord
    \/ DeployMetadata
    \/ DeployCheckInfo
    \/ DeployUpdateConfig
    \/ DeployVersionHistory
    \/ DeployVerify

---------------------------------------------------------------------------
(* Properties of deploy_model.py *)

Events(kind) == { i \in 1..Len(trace) : trace[i][1] = kind }
Happened(kind) == Events(kind) # {}

ReturnedDict(m) ==
    /\ m \in DOMAIN uploadReturns
    /\ uploadReturns[m].kind = "dict"

\* C1: the data written to system_config/ml_models has an entry for a model
\* exactly when upload_model returned a dict for that model in this run, and
\* the entry's downloadUrl, modelPath and checksum are the url, path and
\* checksum of that dict, the checksum also being the blob's checksum_md5.
C1_ConfigMatchesUploads ==
    (script = "deploy" /\ configDoc.written) =>
        \A m \in ModelNames :
            /\ (m \in DOMAIN configDoc.models) <=> ReturnedDict(m)
            /\ (m \in DOMAIN configDoc.models) =>
                  /\ configDoc.models[m].downloadUrl = uploadReturns[m].url
                  /\ configDoc.models[m].modelPath = uploadReturns[m].path
                  /\ configDoc.models[m].checksum = uploadReturns[m].checksum
                  /\ blobs[uploadReturns[m].path].present =>
                        blobs[uploadReturns[m].path].checksum_md5
                            = configDoc.models[m].checksum

\* C1 witness: the document was written with one model while the upload of
\* the other model had failed.
C1_Witness ==
    /\ script = "deploy" /\ configDoc.written
    /\ \E m \in ModelNames, o \in ModelNames :
          /\ m \in DOMAIN configDoc.models
          /\ o \in DOMAIN uploadReturns
          /\ uploadReturns[o].kind = "None"
          /\ o \notin DOMAIN configDoc.models

NoFirestoreWrite ==
    /\ ~configDoc.written
    /\ versionDocs = {}
    /\ ~Happened("update_firestore_config")
    /\ ~Happened("create_model_version_history")

NoStorageUpload ==
    /\ \A b \in BlobNames : blobs[b] = NoBlob
    /\ ~Happened("upload_from_filename")
    /\ ~Happened("upload_metadata")

NoLocalModel == script = "deploy" /\ pc # "d_check_local" /\ seenLocal = {}
NoFirebase == script = "deploy" /\ firebase = "none"
NoUploadSucceeded ==
    /\ script = "deploy" /\ firebase = "ok"
    /\ pc \in { "d_update_config", "d_history", "d_verify", "exited", "raised" }
    /\ \A m \in ModelNames : ~ReturnedDict(m)

\* C2: main exits with status 1 without any Firestore write when no model
\* file exists locally, when initialize_firebase returns (None, None), or when
\* no upload_model call returned a dict; in the first two cases nothing was
\* uploaded to storage either.
C2_ExitWithoutWrite ==
    /\ (NoLocalModel \/ NoFirebase \/ NoUploadSucceeded) =>
          (pc = "exited" /\ exitStatus = EXIT_FAILURE /\ NoFirestoreWrite)
    /\ (NoLocalModel \/ NoFirebase) => NoStorageUpload

\* C2 witness: a model file was uploaded but no upload_model call returned a
\* dict (make_public raised), and main has exited.
C2_Witness ==
    /\ NoUploadSucceeded
    /\ pc = "exited"
    /\ \E b \in BlobNames : blobs[b].present

UploadKinds == { "upload_model", "upload_from_filename", "make_public",
                 "upload_metadata" }

StepRank(e) ==
    CASE e[1] \in UploadKinds -> 1
      [] e[1] = "update_firestore_config" -> 2
      [] e[1] = "create_model_version_history" -> 3
      [] e[1] = "verify_deployment" -> 4
      [] OTHER -> 5

\* C3: uploads, then the Firestore config write, then the version history,
\* then verify_deployment; the last two only if update_firestore_config
\* returned True (otherwise exit status 1 without them); DEPLOYMENT COMPLETE
\* only if verify_deployment found the blob of every model of model_info
\* without an exception.
C3_StepOrder ==
    script = "deploy" =>
        /\ \A i \in 1..Len(trace), j \in 1..Len(trace) :
              i < j => /\ StepRank(trace[i]) <= StepRank(trace[j])
                       /\ StepRank(trace[i]) > 1 => StepRank(trace[i]) < StepRank(trace[j])
        /\ Happened("verify_deployment") => Happened("create_model_version_history")
        /\ Happened("create_model_version_history") => Happened("update_firestore_config")
        /\ (Happened("create_model_version_history") \/ Happened("verify_deployment"))
              => configRet = TRUE
        /\ (Happened("update_firestore_config") /\ configRet = FALSE)
              => (pc = "exited" /\ exitStatus = EXIT_FAILURE)
        /\ exitStatus = EXIT_SUCCESS => Happened("verify_deployment")
        /\ Happened("DEPLOYMENT COMPLETE") =>
              \E i \in Events("verify_deployment") :
                  /\ DOMAIN trace[i][2] = DOMAIN model_info
                  /\ \A m \in DOMAIN model_info : trace[i][2][m] = "True"

\* C3 witness: a run that deployed both models and reported completion.
C3_Witness ==
    /\ script = "deploy"
    /\ Happened("DEPLOYMENT COMPLETE")
    /\ DOMAIN model_info = ModelNames
    /\ Cardinality(versionDocs) = 2

UploadResultKeys == { "kind", "url", "path", "size_mb", "checksum" }

\* C4: upload_model never raises to main; it returns a dict with the keys url,
\* path, size_mb and checksum exactly when the file was read, uploaded and
\* made public, and None otherwise; make_public is called only right after
\* upload_from_filename has returned for the same blob.
C4_UploadModelTotal ==
    script = "deploy" =>
        /\ pc # "raised"
        /\ \A m \in DOMAIN uploadReturns :
              \/ uploadReturns[m] = NoneResult
              \/ /\ uploadReturns[m].kind = "dict"
                 /\ DOMAIN uploadReturns[m] = UploadResultKeys
        /\ pc = "d_record" =>
              LET b == BlobName(Models[cur])
              IN /\ upResult.kind \in { "None", "dict" }
                 /\ upResult.kind = "dict" <=> (blobs[b].present /\ blobs[b].public)
                 /\ upResult.kind = "dict" =>
                       /\ upResult.checksum = calculate_checksum(tfliteContent[Models[cur]])
                       /\ upResult.checksum = blobs[b].checksum_md5
                       /\ upResult.path = b
        /\ pc = "u_public" => blobs[BlobName(Models[cur])].present
        /\ \A i \in Events("make_public") :
              /\ i > 1
              /\ trace[i-1] = << "upload_from_filename", trace[i][2] >>

\* C4 witness: upload_from_filename returned, make_public raised, and
\* upload_model returned None to main.
C4_Witness ==
    /\ script = "deploy" /\ pc = "d_record"
    /\ upResult = NoneResult
    /\ blobs[BlobName(Models[cur])].present
    /\ ~blobs[BlobName(Models[cur])].public

---------------------------------------------------------------------------
(* convert_tflite.py *)

\* generate_representative_dataset(168, 13), line 152
SCHEDULE_SEQUENCE_LENGTH == 168
SCHEDULE_NUM_FEATURES == 13
\* anomaly_representative_dataset, lines 246-276
ANOMALY_SEQUENCE_LENGTH == 24
ANOMALY_NUM_FEATURES == 15
\* df[feature_cols].values[:200]
RECORD_LIMIT == 200
\* for _ in range(100)
SYNTHETIC_SAMPLES == 100

\* Largest number of rows of hourly_features.csv considered.
MaxRows == 201

RowCounts == { 0, ANOMALY_SEQUENCE_LENGTH, ANOMALY_SEQUENCE_LENGTH + 1,
               SCHEDULE_SEQUENCE_LENGTH, SCHEDULE_SEQUENCE_LENGTH + 1,
               RECORD_LIMIT, MaxRows }

Max(a, b) == IF a >= b THEN a ELSE b
Min(a, b) == IF a <= b THEN a ELSE b

\* What one call of a representative dataset generator finds in
\* data/processed: hourly_features.csv (its number of rows, and whether it has
\* every feature column the generator selects) and the generator's scaler file.
ProcessedStates ==
    { [ csv |-> c, scaler |-> sc, rows |-> n, colsComplete |-> k ] :
        c \in BOOLEAN, sc \in BOOLEAN, n \in RowCounts, k \in BOOLEAN }
NotRead == [ csv |-> FALSE, scaler |-> FALSE, rows |-> 0, colsComplete |-> FALSE,
             read |-> FALSE ]

\* Python s[a:b] for 0 <= a <= b, on a 1-based sequence
PySlice(s, a, b) == SubSeq(s, a + 1, Min(b, Len(s)))

\* df[cols].values: row i of the CSV, i = 0 .. n-1
CsvRows(n) == [ k \in 1..n |-> k - 1 ]

\* scaler.transform: applied to every row separately
Transform(features) == [ k \in 1..Len(features) |-> << "scaled", features[k] >> ]

SyntheticSamples(sequence_length, num_features) ==
    [ j \in 1..SYNTHETIC_SAMPLES |->
        [ kind |-> "synthetic", shape |-> << 1, sequence_length, num_features >> ] ]

\* for i in range(len(features_normalized) - L): yield features_normalized[i:i+L]
Windows(features_normalized, sequence_length) ==
    [ j \in 1..(Len(features_normalized) - sequence_length) |->
        [ kind |-> "real",
          data |-> PySlice(features_normalized, j - 1, j - 1 + sequence_length) ] ]

\* generate_representative_dataset, lines 53-100.  df[feature_cols] raises
\* KeyError when a feature column is missing from the CSV.
generate_representative_dataset(p, sequence_length, num_features) ==
    IF p.csv /\ p.scaler
       THEN IF ~p.colsComplete
               THEN [ raised |-> TRUE, samples |-> << >> ]
               ELSE [ raised |-> FALSE,
                      samples |-> Windows(
                          Transform(PySlice(CsvRows(p.rows), 0, RECORD_LIMIT)),
                          sequence_length) ]
       ELSE [ raised |-> FALSE,
              samples |-> SyntheticSamples(sequence_length, num_features) ]

\* Variant of anomaly_representative_dataset: the available columns are used
\* without the check for missing ones.
anomaly_representative_dataset_unchecked(p) ==
    IF p.csv /\ p.scaler
       THEN [ raised |-> FALSE,
              samples |-> Windows(
                  Transform(PySlice(CsvRows(p.rows), 0, RECORD_LIMIT)),
                  ANOMALY_SEQUENCE_LENGTH) ]
       ELSE [ raised |-> FALSE,
              samples |-> SyntheticSamples(ANOMALY_SEQUENCE_LENGTH,
                                           ANOMALY_NUM_FEATURES) ]

\* anomaly_representative_dataset, lines 237-276
anomaly_representative_dataset(p) ==
    IF p.csv /\ p.scaler
       THEN IF ~p.colsComplete
               THEN [ raised |-> FALSE,
                      samples |-> SyntheticSamples(ANOMALY_SEQUENCE_LENGTH,
                                                   ANOMALY_NUM_FEATURES) ]
               ELSE [ raised |-> FALSE,
                      samples |-> Windows(
                          Transform(PySlice(CsvRows(p.rows), 0, RECORD_LIMIT)),
                          ANOMALY_SEQUENCE_LENGTH) ]
       ELSE [ raised |-> FALSE,
              samples |-> SyntheticSamples(ANOMALY_SEQUENCE_LENGTH,
                                           ANOMALY_NUM_FEATURES) ]

\* converter.representative_dataset of each conversion function
RepresentativeDataset(m, p) ==
    IF m = "schedule_predictor"
       THEN generate_representative_dataset(p, SCHEDULE_SEQUENCE_LENGTH,
                                            SCHEDULE_NUM_FEATURES)
       ELSE anomaly_representative_dataset(p)

NoCalib == [ raised |-> FALSE, samples |-> << >>, model |-> None ]

\* main, lines 552 and 555: the conversion function returned
ConvertReturn(m, result) ==
    /\ conversion_results' = DictSet(conversion_results, m, result)
    /\ IF cur < Len(Models)
          THEN pc' = "c_exists" /\ cur' = cur + 1
          ELSE pc' = "k_glob" /\ UNCHANGED cur

\* an exception leaves main: traceback, exit status 1
Abort ==
    /\ pc' = "raised"
    /\ exitStatus' = EXIT_FAILURE

\* Variant of ConvertExists: the conversion goes on without checking that the
\* saved model directory exists.
ConvertExistsUnchecked ==
    /\ script = "convert" /\ pc = "c_exists"
    /\ trace' = Append(trace, << "convert", Models[cur] >>)
    /\ pc' = "c_load"
    /\ UNCHANGED << conversion_results, cur >>
    /\ UNCHANGED << script, otherVars, exitStatus, tfliteDir, tfliteContent, deployVars,
                    savedModels, processed, calib, tfliteVerified, assetsDir,
                    copyIdx, copied_count, copied, copy_success, trainVars >>

\* convert_schedule_predictor / convert_anomaly_detector, lines 114-124 and
\* 200-211: the saved model directory is missing -> return False
ConvertExists ==
    /\ script = "convert" /\ pc = "c_exists"
    /\ IF Models[cur] \in savedModels
          THEN /\ trace' = Append(trace, << "convert", Models[cur] >>)
               /\ pc' = "c_load"
               /\ UNCHANGED << conversion_results, cur >>
          ELSE /\ trace' = Append(Append(trace, << "convert", Models[cur] >>),
                                  << "failed", Models[cur], "model not found" >>)
               /\ ConvertReturn(Models[cur], FALSE)
    /\ UNCHANGED << script, otherVars, exitStatus, tfliteDir, tfliteContent, deployVars,
                    savedModels, processed, calib, tfliteVerified, assetsDir,
                    copyIdx, copied_count, copied, copy_success, trainVars >>

\* lines 126-140 and 213-223: load_model raises -> return False
ConvertLoad ==
    /\ script = "convert" /\ pc = "c_load"
    /\ \E ok \in BOOLEAN :
          IF ok THEN /\ trace' = Append(trace, << "loaded", Models[cur] >>)
                     /\ pc' = "c_convert"
                     /\ UNCHANGED << conversion_results, cur >>
                ELSE /\ trace' = Append(trace, << "failed", Models[cur], "load" >>)
                     /\ ConvertReturn(Models[cur], FALSE)
    /\ UNCHANGED << script, otherVars, exitStatus, tfliteDir, tfliteContent,
                    deployVars, savedModels, processed, calib, tfliteVerified,
                    assetsDir, copyIdx, copied_count, copied, copy_success,
                    trainVars >>

\* lines 142-162 and 225-286: converter.convert() draws the representative
\* dataset from the generator
ConvertCalibrate ==
    /\ script = "convert" /\ pc = "c_convert"
    /\ \E p \in ProcessedStates :
          /\ (~(p.csv /\ p.scaler)) => (p.rows = 0 /\ p.colsComplete)
          /\ processed' = [ csv |-> p.csv, scaler |-> p.scaler, rows |-> p.rows,
                            colsComplete |-> p.colsComplete, read |-> TRUE ]
          /\ LET d == RepresentativeDataset(Models[cur], p)
             IN calib' = [ raised |-> d.raised, samples |-> d.samples,
                           model |-> Models[cur] ]
    /\ pc' = "c_converted"
    /\ UNCHANGED << script, otherVars, exitStatus, trace, tfliteDir, tfliteContent, cur,
                    deployVars, savedModels, conversion_results, tfliteVerified,
                    assetsDir, copyIdx, copied_count, copied, copy_success,
                    trainVars >>

\* lines 161-165 and 285-289: converter.convert() returned, or an exception
\* of the generator or of the converter was caught -> return False
ConvertConverted ==
    /\ script = "convert" /\ pc = "c_converted"
    /\ \E tfOk \in BOOLEAN :
          IF tfOk /\ ~calib.raised
             THEN /\ trace' = Append(trace, << "converted", Models[cur] >>)
                  /\ pc' = "c_write"
                  /\ UNCHANGED << conversion_results, cur >>
             ELSE /\ trace' = Append(trace, << "failed", Models[cur], "convert" >>)
                  /\ ConvertReturn(Models[cur], FALSE)
    /\ calib' = NoCalib /\ processed' = NotRead
    /\ UNCHANGED << script, otherVars, exitStatus, tfliteDir, tfliteContent,
                    deployVars, savedModels, tfliteVerified, assetsDir,
                    copyIdx, copied_count, copied, copy_success, trainVars >>

\* lines 167-176 and 291-300: the .tflite file is written (open/write are not
\* guarded: an OSError leaves the function and main)
ConvertWrite ==
    /\ script = "convert" /\ pc = "c_write"
    /\ \E ok \in BOOLEAN, content \in Contents :
          IF ok
             THEN /\ tfliteDir' = tfliteDir \cup { TfliteFile(Models[cur]) }
                  /\ tfliteContent' = [ tfliteContent EXCEPT ![Models[cur]] = content ]
                  /\ trace' = Append(trace, << "wrote", TfliteFile(Models[cur]) >>)
                  /\ pc' = "c_verify"
                  /\ UNCHANGED exitStatus
             ELSE /\ Abort
                  /\ trace' = Append(trace, << "raised", Models[cur], "write" >>)
                  /\ UNCHANGED << tfliteDir, tfliteContent >>
    /\ UNCHANGED << script, otherVars, cur, deployVars, savedModels, processed,
                    calib, conversion_results, tfliteVerified, assetsDir,
                    copyIdx, copied_count, copied, copy_success, trainVars >>

\* Variant of ConvertVerify: the result of verify_tflite_model is ignored.
ConvertVerifyIgnored ==
    /\ script = "convert" /\ pc = "c_verify"
    /\ \E ok \in BOOLEAN :
          IF ok
             THEN /\ tfliteVerified' = tfliteVerified \cup { Models[cur] }
                  /\ trace' = Append(trace, << "verified", Models[cur] >>)
             ELSE /\ trace' = Append(trace, << "failed", Models[cur], "verify" >>)
                  /\ UNCHANGED tfliteVerified
    /\ pc' = "c_metadata"
    /\ UNCHANGED << script, otherVars, exitStatus, tfliteDir, tfliteContent, cur,
                    conversion_results, deployVars, savedModels, processed,
                    calib, assetsDir, copyIdx, copied_count, copied,
                    copy_success, trainVars >>

\* lines 178-180 and 302-304, with verify_tflite_model, lines 312-352: every
\* exception is caught inside verify_tflite_model
ConvertVerify ==
    /\ script = "convert" /\ pc = "c_verify"
    /\ \E ok \in BOOLEAN :
          IF ok
             THEN /\ tfliteVerified' = tfliteVerified \cup { Models[cur] }
                  /\ trace' = Append(trace, << "verified", Models[cur] >>)
                  /\ pc' = "c_metadata"
                  /\ UNCHANGED << conversion_results, cur >>
             ELSE /\ trace' = Append(trace, << "failed", Models[cur], "verify" >>)
                  /\ ConvertReturn(Models[cur], FALSE)
                  /\ UNCHANGED tfliteVerified
    /\ UNCHANGED << script, otherVars, exitStatus, tfliteDir, tfliteContent,
                    deployVars, savedModels, processed, calib, assetsDir,
                    copyIdx, copied_count, copied, copy_success, trainVars >>

\* metadata.json as written by save_model of the training scripts
\* train_model.py, lines 376-383
TrainModelMetadata ==
    [ model_version |-> "1.0.0",
      trained_date |-> "datetime.now().isoformat()",
      sequence_length |-> "168",
      metrics |-> "metrics",
      framework |-> "TensorFlow",
      framework_version |-> "tf.__version__" ]

\* train_smart_home.py, lines 546-566
TrainSmartHomeMetadata ==
    [ model_version |-> "1.0.0",
      trained_date |-> "datetime.now().isoformat()",
      sequence_length |-> "168",
      batch_size |-> "BATCH_SIZE",
      epochs_trained |-> "EPOCHS",
      learning_rate |-> "LEARNING_RATE",
      metrics |-> "metrics",
      framework |-> "TensorFlow",
      framework_version |-> "tf.__version__",
      training_source |-> "Kaggle Smart Home Dataset",
      input_shape |-> "[168, 13]",
      output_shape |-> "[2]",
      features |-> "feature_cols",
      outputs |-> "['fan_speed_0to1', 'led_brightness_0to1']" ]

\* train_anomaly_detector.py, lines 340-351
AnomalyDetectorMetadata ==
    [ model_version |-> "1.0.0",
      trained_date |-> "datetime.now().isoformat()",
      lookback_hours |-> "LOOKBACK_HOURS",
      encoding_dim |-> "ENCODING_DIM",
      anomaly_threshold |-> "threshold",
      mean_reconstruction_error |-> "mean_mse",
      std_reconstruction_error |-> "std_mse",
      metrics |-> "metrics",
      framework |-> "TensorFlow",
      framework_version |-> "tf.__version__" ]

\* training_metadata_path.exists() and json.load(f), lines 368-374
NoMetadataFile == [ exists |-> FALSE, data |-> EmptyDict ]
MetadataFile(d) == [ exists |-> TRUE, data |-> d ]

\* What save_model_metadata can find at MODELS_DIR/<model_name>_v1/metadata.json
TrainingMetadataFiles(m) ==
    IF m = "schedule_predictor"
       THEN { NoMetadataFile, MetadataFile(TrainModelMetadata),
              MetadataFile(TrainSmartHomeMetadata) }
       ELSE { NoMetadataFile, MetadataFile(AnomalyDetectorMetadata) }

\* A <model>.json left in models/tflite by an earlier version of the pipeline
StaleMetadata ==
    [ model_name |-> "stale", model_version |-> "0.9.0", legacy_field |-> "stale" ]

\* the dict passed to metadata.update, lines 377-390
TfliteFields(model_name, content) ==
    [ model_name |-> model_name,
      model_version |-> "1.0.0",
      tflite_model_path |-> << "models/tflite", TfliteFile(model_name) >>,
      tflite_model_size_mb |-> FileSize(content),
      input_shape |-> "list(keras_model.input_shape)",
      output_shape |-> "list(keras_model.output_shape)",
      quantized |-> "True",
      quantization_type |-> "INT8",
      conversion_date |-> "tf.timestamp()",
      tensorflow_version |-> "tf.__version__",
      framework |-> "TensorFlow Lite",
      inference_type |-> "float32" ]

\* Variant of save_model_metadata: a key the training metadata has keeps
\* its training value.
save_model_metadata_keep_training(file, model_name, content) ==
    DictUpdate(TfliteFields(model_name, content),
               IF file.exists THEN file.data ELSE EmptyDict)

\* save_model_metadata, lines 367-394: the dict json.dump writes
save_model_metadata(file, model_name, content) ==
    DictUpdate(IF file.exists THEN file.data ELSE EmptyDict,
               TfliteFields(model_name, content))

\* lines 182-185 and 306-309, with save_model_metadata, lines 355-397:
\* json.load / open / json.dump are not guarded
ConvertMetadata ==
    /\ script = "convert" /\ pc = "c_metadata"
    /\ \E ok \in BOOLEAN, file \in TrainingMetadataFiles(Models[cur]) :
          IF ok
             THEN /\ training_metadata' =
                        [ training_metadata EXCEPT ![Models[cur]] = file ]
                  /\ jsonContent' =
                        [ jsonContent EXCEPT ![Models[cur]] =
                            save_model_metadata(file, Models[cur],
                                                tfliteContent[Models[cur]]) ]
                  /\ tfliteDir' = tfliteDir \cup { JsonFile(Models[cur]) }
                  /\ trace' = Append(trace, << "wrote", JsonFile(Models[cur]) >>)
                  /\ ConvertReturn(Models[cur], TRUE)
                  /\ UNCHANGED exitStatus
             ELSE /\ Abort
                  /\ trace' = Append(trace, << "raised", Models[cur], "metadata" >>)
                  /\ UNCHANGED << tfliteDir, conversion_results, cur,
                                  training_metadata, jsonContent >>
    /\ UNCHANGED << script, preprocessVars, collectVars, tfjsVars, runs, outputFiles, tfliteContent,
                    deployVars, savedModels, processed, calib, tfliteVerified, assetsDir, copyIdx,
                    copied_count, copied, copy_success, trainVars >>

\* TFLITE_DIR.glob('*.tflite') and TFLITE_DIR.glob('*.json'), as lists
GlobTflite(dir) == SelectSeq([ i \in 1..Len(Models) |-> TfliteFile(Models[i]) ],
                             LAMBDA f : f \in dir)
GlobJson(dir) == SelectSeq([ i \in 1..Len(Models) |-> JsonFile(Models[i]) ],
                           LAMBDA f : f \in dir)

\* copy_to_flutter_assets, lines 410-426 (called from main, line 558)
CopyGlob ==
    /\ script = "convert" /\ pc = "k_glob"
    /\ trace' = Append(trace, << "copy_to_flutter_assets" >>)
    /\ copied_count' = 0
    /\ copyIdx' = 1
    /\ IF Len(GlobTflite(tfliteDir)) = 0
          THEN copy_success' = FALSE /\ pc' = "g_guide"
          ELSE pc' = "k_copy" /\ UNCHANGED copy_success
    /\ UNCHANGED << script, otherVars, exitStatus, tfliteDir, tfliteContent, cur,
                    deployVars, savedModels, processed, calib,
                    conversion_results, tfliteVerified, assetsDir, copied,
                    trainVars >>

\* Variant of CopyTflite: copied_count is incremented before copy2 is called.
CopyTfliteCountFirst ==
    /\ script = "convert" /\ pc = "k_copy"
    /\ LET f == GlobTflite(tfliteDir)[copyIdx]
       IN \E copy2Ok \in BOOLEAN :
             /\ copied_count' = copied_count + 1
             /\ IF copy2Ok
                   THEN /\ assetsDir' = assetsDir \cup {f}
                        /\ copied' = copied \cup {f}
                   ELSE UNCHANGED << assetsDir, copied >>
    /\ IF copyIdx < Len(GlobTflite(tfliteDir))
          THEN copyIdx' = copyIdx + 1 /\ pc' = "k_copy"
          ELSE copyIdx' = 1 /\ pc' = "k_json"
    /\ UNCHANGED << script, otherVars, exitStatus, trace, tfliteDir, tfliteContent, cur,
                    deployVars, savedModels, processed, calib,
                    conversion_results, tfliteVerified, copy_success, trainVars >>

\* copy_to_flutter_assets, lines 427-436: one iteration of the .tflite loop.
\* shutil.copy2 raises or copies; the stat() and print that follow it read
\* the file copy2 has just read, and then copied_count is incremented.
CopyTflite ==
    /\ script = "convert" /\ pc = "k_copy"
    /\ LET f == GlobTflite(tfliteDir)[copyIdx]
       IN \E copy2Ok \in BOOLEAN :
             IF copy2Ok
                THEN /\ assetsDir' = assetsDir \cup {f}
                     /\ copied' = copied \cup {f}
                     /\ copied_count' = copied_count + 1
                ELSE UNCHANGED << assetsDir, copied, copied_count >>
    /\ IF copyIdx < Len(GlobTflite(tfliteDir))
          THEN copyIdx' = copyIdx + 1 /\ pc' = "k_copy"
          ELSE copyIdx' = 1 /\ pc' = "k_json"
    /\ UNCHANGED << script, otherVars, exitStatus, trace, tfliteDir, tfliteContent, cur,
                    deployVars, savedModels, processed, calib,
                    conversion_results, tfliteVerified, copy_success, trainVars >>

\* copy_to_flutter_assets, lines 438-454: the .json loop, then the result
CopyJson ==
    /\ script = "convert" /\ pc = "k_json"
    /\ IF copyIdx <= Len(GlobJson(tfliteDir))
          THEN /\ \E copy2Ok \in BOOLEAN :
                     IF copy2Ok
                        THEN /\ assetsDir' = assetsDir \cup { GlobJson(tfliteDir)[copyIdx] }
                             /\ copied' = copied \cup { GlobJson(tfliteDir)[copyIdx] }
                        ELSE UNCHANGED << assetsDir, copied >>
               /\ copyIdx' = copyIdx + 1
               /\ UNCHANGED << pc, copy_success >>
          ELSE /\ copy_success' = (copied_count > 0)
               /\ pc' = "g_guide"
               /\ UNCHANGED << assetsDir, copyIdx, copied >>
    /\ UNCHANGED << script, otherVars, exitStatus, trace, tfliteDir, tfliteContent, cur,
                    deployVars, savedModels, processed, calib,
                    conversion_results, tfliteVerified, copied_count,
                    trainVars >>

GuideFile == << "FLUTTER_GUIDE", ".md" >>

\* main, line 561, with generate_flutter_guide, lines 457-541 (open/write are
\* not guarded)
ConvertGuide ==
    /\ script = "convert" /\ pc = "g_guide"
    /\ \E ok \in BOOLEAN :
          IF ok
             THEN /\ trace' = Append(trace, << "generate_flutter_guide" >>)
                  /\ tfliteDir' = tfliteDir \cup { GuideFile }
                  /\ pc' = "c_summary"
                  /\ UNCHANGED exitStatus
             ELSE /\ Abort
                  /\ trace' = Append(Append(trace, << "generate_flutter_guide" >>),
                                     << "raised", "guide", "write" >>)
                  /\ UNCHANGED tfliteDir
    /\ UNCHANGED << script, otherVars, tfliteContent, cur, deployVars, convertVars, trainVars >>

\* conversion_results.get('schedule_predictor') and copy_success, line 581
ModelsReady(results, copy_ok) ==
    /\ "schedule_predictor" \in DOMAIN results
    /\ results["schedule_predictor"]
    /\ copy_ok

\* Variant of ConvertSummary: readiness requires every conversion to have
\* succeeded (all(conversion_results.values()) and copy_success).
ConvertSummaryAll ==
    /\ script = "convert" /\ pc = "c_summary"
    /\ trace' = Append(trace,
                  IF (\A m \in DOMAIN conversion_results : conversion_results[m])
                        /\ copy_success
                     THEN << "Models ready for Flutter app" >>
                     ELSE << "Some conversions failed" >>)
    /\ pc' = "exited"
    /\ exitStatus' = EXIT_SUCCESS
    /\ UNCHANGED << script, otherVars, tfliteDir, tfliteContent, cur, deployVars,
                    convertVars, trainVars >>

\* main, lines 563-593
ConvertSummary ==
    /\ script = "convert" /\ pc = "c_summary"
    /\ trace' = Append(trace,
                  IF ModelsReady(conversion_results, copy_success)
                     THEN << "Models ready for Flutter app" >>
                     ELSE << "Some conversions failed" >>)
    /\ pc' = "exited"
    /\ exitStatus' = EXIT_SUCCESS
    /\ UNCHANGED << script, otherVars, tfliteDir, tfliteContent, cur, deployVars,
                    convertVars, trainVars >>

ConvertNext ==
    \/ ConvertExists
    \/ ConvertLoad
    \/ ConvertCalibrate
    \/ ConvertConverted
    \/ ConvertWrite
    \/ ConvertVerify
    \/ ConvertMetadata
    \/ CopyGlob
    \/ CopyTflite
    \/ CopyJson
    \/ ConvertGuide
    \/ ConvertSummary

---------------------------------------------------------------------------
(* Properties of convert_tflite.py *)

Did(e) == \E i \in 1..Len(trace) : trace[i] = e

ConversionSucceeded(m) ==
    /\ m \in savedModels
    /\ Did(<< "loaded", m >>)
    /\ Did(<< "converted", m >>)
    /\ Did(<< "wrote", TfliteFile(m) >>) /\ TfliteFile(m) \in tfliteDir
    /\ Did(<< "verified", m >>) /\ m \in tfliteVerified
    /\ Did(<< "wrote", JsonFile(m) >>) /\ JsonFile(m) \in tfliteDir

ConversionFailed(m) ==
    \E i \in 1..Len(trace) : trace[i][1] = "failed" /\ trace[i][2] = m

\* C5: a conversion function returns True exactly when the model directory
\* existed, the model loaded, convert() succeeded, the .tflite file was
\* written, verify_tflite_model returned True and the metadata JSON was saved;
\* a missing directory, a failed load, a failed conversion or a failed
\* verification makes it return False, without the metadata JSON being written.
C5_ConversionResult ==
    script = "convert" =>
        \A m \in ModelNames :
            /\ m \in DOMAIN conversion_results =>
                  (conversion_results[m] <=> ConversionSucceeded(m))
            /\ ConversionSucceeded(m) => m \in DOMAIN conversion_results
            /\ ConversionFailed(m) <=>
                  (m \in DOMAIN conversion_results /\ ~conversion_results[m])
            /\ ConversionFailed(m) => ~Did(<< "wrote", JsonFile(m) >>)

\* C5 witness: the .tflite file was written, verification failed, and the
\* function returned False.
C5_Witness ==
    /\ script = "convert"
    /\ Did(<< "wrote", TfliteFile("schedule_predictor") >>)
    /\ Did(<< "failed", "schedule_predictor", "verify" >>)
    /\ "schedule_predictor" \in DOMAIN conversion_results
    /\ ~conversion_results["schedule_predictor"]

MainSteps == << << "convert", "schedule_predictor" >>,
                << "convert", "anomaly_detector" >>,
                << "copy_to_flutter_assets" >>,
                << "generate_flutter_guide" >> >>

IsMainStep(e) == \E i \in 1..Len(MainSteps) : MainSteps[i] = e

StepsDone == SelectSeq(trace, IsMainStep)

StepsBefore(position) ==
    CASE position = "k_glob" -> 2
      [] position = "g_guide" -> 3
      [] position = "c_summary" -> 4
      [] position = "exited" -> 4
      [] OTHER -> Len(StepsDone)

\* C6: main runs convert_schedule_predictor, convert_anomaly_detector,
\* copy_to_flutter_assets and generate_flutter_guide in this order whatever
\* the earlier steps returned, and reports 'Models ready for Flutter app'
\* exactly when the schedule predictor conversion and the copy returned True.
C6_ConvertMainOrder ==
    script = "convert" =>
        /\ Len(StepsDone) <= Len(MainSteps)
        /\ StepsDone = SubSeq(MainSteps, 1, Len(StepsDone))
        /\ Len(StepsDone) = StepsBefore(pc)
        /\ pc = "raised" => trace[Len(trace)][1] = "raised"
        /\ pc = "exited" =>
              (Happened("Models ready for Flutter app") <=>
                  /\ "schedule_predictor" \in DOMAIN conversion_results
                  /\ conversion_results["schedule_predictor"]
                  /\ copy_success)
        /\ pc # "exited" => ~Happened("Models ready for Flutter app")

\* C6 witness: the anomaly detector conversion returned False, every later
\* step ran, and the models were reported ready.
C6_Witness ==
    /\ script = "convert" /\ pc = "exited"
    /\ Happened("Models ready for Flutter app")
    /\ ~conversion_results["anomaly_detector"]
    /\ StepsDone = MainSteps

CopyReturned ==
    /\ script = "convert"
    /\ Happened("copy_to_flutter_assets")
    /\ pc \notin { "k_copy", "k_json" }

C8_AlwaysOneSample ==
    (script = "convert" /\ pc = "c_converted"
        /\ calib.model = "schedule_predictor" /\ ~calib.raised) =>
        /\ IF processed.csv /\ processed.scaler
              THEN /\ Len(calib.samples) = Max(0, Min(processed.rows, 200) - 168)
                   /\ \A j \in 1..Len(calib.samples) :
                         /\ calib.samples[j].kind = "real"
                         /\ calib.samples[j].data =
                               [ t \in 1..168 |-> << "scaled", (j - 1) + (t - 1) >> ]
              ELSE /\ Len(calib.samples) = 100
                   /\ \A j \in 1..100 :
                         calib.samples[j] =
                             [ kind |-> "synthetic", shape |-> << 1, 168, 13 >> ]
        /\ Len(calib.samples) >= 1

---------------------------------------------------------------------------
(* train_model.py *)

SEQUENCE_LENGTH == 168
\* generate_synthetic_sensor_data(days=90): hours = days * 24
SYNTHETIC_DAYS == 90
HOURS_PER_DAY == 24

\* Largest number of distinct hours in the Firebase sensor logs considered.
MaxFirebaseHours == 173

FirebaseHours == { 0, 1, SEQUENCE_LENGTH, SEQUENCE_LENGTH + 1, MaxFirebaseHours }

Unset == [ src |-> "unset", hours |-> 0 ]

\* generate_synthetic_sensor_data, lines 477-505: one record per hour
generate_synthetic_sensor_data(days) ==
    [ src |-> "synthetic", hours |-> days * HOURS_PER_DAY ]

\* generate_synthetic_action_data, lines 507-519
generate_synthetic_action_data(days) ==
    [ src |-> "synthetic", hours |-> days * HOURS_PER_DAY ]

\* main, lines 401-402: FirebaseDataCollector(...) raises -> except branch
TrainCollector ==
    /\ script = "train" /\ pc = "t_collector"
    /\ \E ok \in BOOLEAN :
          IF ok THEN pc' = "t_sensor" /\ UNCHANGED trace
                ELSE /\ pc' = "t_fallback"
                     /\ trace' = Append(trace, << "exception", "FirebaseDataCollector" >>)
    /\ UNCHANGED << script, otherVars, exitStatus, tfliteDir, tfliteContent, cur,
                    deployVars, convertVars, trainVars >>

\* main, line 407: sensor_df = collector.collect_sensor_logs(...)
TrainCollectSensor ==
    /\ script = "train" /\ pc = "t_sensor"
    /\ \E ok \in BOOLEAN, n \in FirebaseHours :
          IF ok THEN /\ sensor_df' = [ src |-> "firebase", hours |-> n ]
                     /\ pc' = "t_action"
                     /\ UNCHANGED trace
                ELSE /\ UNCHANGED sensor_df
                     /\ pc' = "t_fallback"
                     /\ trace' = Append(trace, << "exception", "collect_sensor_logs" >>)
    /\ UNCHANGED << script, otherVars, exitStatus, tfliteDir, tfliteContent, cur,
                    deployVars, convertVars, action_df, rawDir, nSequences >>

\* main, line 408: action_df = collector.collect_action_logs(...)
TrainCollectAction ==
    /\ script = "train" /\ pc = "t_action"
    /\ \E ok \in BOOLEAN :
          IF ok THEN /\ action_df' = [ src |-> "firebase", hours |-> sensor_df.hours ]
                     /\ pc' = "t_sensor_csv"
                     /\ UNCHANGED trace
                ELSE /\ UNCHANGED action_df
                     /\ pc' = "t_fallback"
                     /\ trace' = Append(trace, << "exception", "collect_action_logs" >>)
    /\ UNCHANGED << script, otherVars, exitStatus, tfliteDir, tfliteContent, cur,
                    deployVars, convertVars, sensor_df, rawDir, nSequences >>

\* main, line 411: sensor_df.to_csv(RAW_DATA_DIR / 'sensor_logs.csv')
TrainSensorCsv ==
    /\ script = "train" /\ pc = "t_sensor_csv"
    /\ \E ok \in BOOLEAN :
          IF ok THEN /\ rawDir' = rawDir \cup { "sensor_logs.csv" }
                     /\ pc' = "t_action_csv"
                     /\ UNCHANGED trace
                ELSE /\ UNCHANGED rawDir
                     /\ pc' = "t_fallback"
                     /\ trace' = Append(trace, << "exception", "sensor_df.to_csv" >>)
    /\ UNCHANGED << script, otherVars, exitStatus, tfliteDir, tfliteContent, cur,
                    deployVars, convertVars, sensor_df, action_df, nSequences >>

\* main, line 412: action_df.to_csv(RAW_DATA_DIR / 'action_logs.csv')
TrainActionCsv ==
    /\ script = "train" /\ pc = "t_action_csv"
    /\ \E ok \in BOOLEAN :
          IF ok THEN /\ rawDir' = rawDir \cup { "action_logs.csv" }
                     /\ pc' = "t_preprocess"
                     /\ UNCHANGED trace
                ELSE /\ UNCHANGED rawDir
                     /\ pc' = "t_fallback"
                     /\ trace' = Append(trace, << "exception", "action_df.to_csv" >>)
    /\ UNCHANGED << script, otherVars, exitStatus, tfliteDir, tfliteContent, cur,
                    deployVars, convertVars, sensor_df, action_df, nSequences >>

\* Variant of TrainFallback: only the frame that was not collected yet is
\* generated.
TrainFallbackMissingOnly ==
    /\ script = "train" /\ pc = "t_fallback"
    /\ trace' = Append(trace, << "Firebase collection failed" >>)
    /\ sensor_df' = IF sensor_df.src = "unset"
                       THEN generate_synthetic_sensor_data(SYNTHETIC_DAYS)
                       ELSE sensor_df
    /\ action_df' = IF action_df.src = "unset"
                       THEN generate_synthetic_action_data(SYNTHETIC_DAYS)
                       ELSE action_df
    /\ pc' = "t_preprocess"
    /\ UNCHANGED << script, otherVars, exitStatus, tfliteDir, tfliteContent, cur,
                    deployVars, convertVars, rawDir, nSequences >>

\* main, lines 414-420: except Exception -> both frames are regenerated
TrainFallback ==
    /\ script = "train" /\ pc = "t_fallback"
    /\ trace' = Append(trace, << "Firebase collection failed" >>)
    /\ sensor_df' = generate_synthetic_sensor_data(SYNTHETIC_DAYS)
    /\ action_df' = generate_synthetic_action_data(SYNTHETIC_DAYS)
    /\ pc' = "t_preprocess"
    /\ UNCHANGED << script, otherVars, exitStatus, tfliteDir, tfliteContent, cur,
                    deployVars, convertVars, rawDir, nSequences >>

\* main, lines 427-433, with create_hourly_features, lines 137-186: an empty
\* sensor_df has no 'timestamp' column and sensor_df['timestamp'] raises
TrainPreprocess ==
    /\ script = "train" /\ pc = "t_preprocess"
    /\ trace' = Append(trace, << "preprocess" >>)
    /\ IF sensor_df.hours > 0
          THEN pc' = "t_sequences" /\ UNCHANGED exitStatus
          ELSE Abort
    /\ UNCHANGED << script, otherVars, tfliteDir, tfliteContent, cur, deployVars,
                    convertVars, trainVars >>

\* create_sequences, lines 236-243: for i in range(len(df) - sequence_length)
NumSequences(n, sequence_length) == Max(0, n - sequence_length)

\* train_test_split(X, y, test_size=0.3) followed by
\* train_test_split(X_temp, y_temp, test_size=0.5), lines 440-441: each raises
\* ValueError when a side of the split would be empty, which is the case for
\* fewer than 4 samples (ceil(0.3 n) >= 2)
SplitOk(n) == n >= 4

\* main, lines 436-445
TrainSequences ==
    /\ script = "train" /\ pc = "t_sequences"
    /\ nSequences' = NumSequences(sensor_df.hours, SEQUENCE_LENGTH)
    /\ IF SplitOk(nSequences')
          THEN pc' = "t_train" /\ UNCHANGED exitStatus
          ELSE Abort
    /\ UNCHANGED << script, otherVars, trace, tfliteDir, tfliteContent, cur, deployVars,
                    convertVars, sensor_df, action_df, rawDir >>

\* main, lines 452-459: train_model and evaluate_model (unguarded)
TrainModel ==
    /\ script = "train" /\ pc = "t_train"
    /\ trace' = Append(trace, << "train" >>)
    /\ \E ok \in BOOLEAN :
          IF ok THEN pc' = "t_save" /\ UNCHANGED exitStatus
                ELSE Abort
    /\ UNCHANGED << script, otherVars, tfliteDir, tfliteContent, cur, deployVars,
                    convertVars, trainVars >>

\* main, lines 466-474: save_model (unguarded)
TrainSave ==
    /\ script = "train" /\ pc = "t_save"
    /\ trace' = Append(trace, << "save" >>)
    /\ \E ok \in BOOLEAN :
          IF ok THEN /\ savedModels' = savedModels \cup { "schedule_predictor" }
                     /\ pc' = "exited" /\ exitStatus' = EXIT_SUCCESS
                ELSE Abort /\ UNCHANGED savedModels
    /\ UNCHANGED << script, otherVars, tfliteDir, tfliteContent, cur, deployVars,
                    processed, calib, conversion_results, tfliteVerified,
                    assetsDir, copyIdx, copied_count, copied, copy_success,
                    trainVars >>

TrainNext ==
    \/ TrainCollector
    \/ TrainCollectSensor
    \/ TrainCollectAction
    \/ TrainSensorCsv
    \/ TrainActionCsv
    \/ TrainFallback
    \/ TrainPreprocess
    \/ TrainSequences
    \/ TrainModel
    \/ TrainSave

---------------------------------------------------------------------------
(* Properties of train_model.py *)

CollectionPcs == { "t_collector", "t_sensor", "t_action", "t_sensor_csv",
                   "t_action_csv", "t_fallback" }

---------------------------------------------------------------------------
(* tfjs/deploy_tfjs.py *)

TFJS_STORAGE_BUCKET == "smartsync-cf370.appspot.com"

\* blob.public_url
TfjsPublicUrl(blob_name) ==
    << "https://storage.googleapis.com", TFJS_STORAGE_BUCKET, blob_name >>

\* list(model_dir.glob("*")): the files of the model directory, in any order
FileLists(files) ==
    { l \in UNION { [ 1..n -> files ] : n \in 0..Cardinality(files) } :
        \A i, j \in 1..Len(l) : i # j => l[i] # l[j] }

NoModelInfo == [ kind |-> "None" ]
NoUrl == << >>

\* the variables the other scripts own
TfjsFrame == << script, runs, outputFiles, preprocessVars, metadataVars, collectVars, tfliteDir,
                tfliteContent, seenLocal, upChecksum, upResult, model_info,
                uploadReturns, configRet, versionDocs, all_verified,
                convertVars, trainVars >>

\* main, lines 145-147, with initialize_firebase, lines 18-33: (None, None)
\* when the key file is missing; the SDK calls are not guarded
TfjsInit ==
    /\ script = "deploy_tfjs" /\ pc = "j_init"
    /\ \E credExists \in BOOLEAN, sdkOk \in BOOLEAN :
          IF ~credExists
             THEN /\ firebase' = "none"
                  /\ Exit(EXIT_SUCCESS)
                  /\ UNCHANGED trace
          ELSE IF ~sdkOk
             THEN /\ Abort
                  /\ trace' = Append(trace, << "raised", "initialize_firebase" >>)
                  /\ UNCHANGED firebase
             ELSE /\ firebase' = "ok"
                  /\ pc' = "j_dir"
                  /\ UNCHANGED << exitStatus, trace >>
    /\ UNCHANGED << TfjsFrame, tfjsVars, cur, blobs, configDoc >>

\* upload_tfjs_model, lines 39-48; main, lines 150-152: return when the
\* model directory is missing
TfjsModelDir ==
    /\ script = "deploy_tfjs" /\ pc = "j_dir"
    /\ \E dirExists \in BOOLEAN, files \in FileLists(TfjsFiles) :
          IF dirExists
             THEN /\ tfjs_files' = files
                  /\ pc' = IF Len(files) > 0 THEN "j_upload" ELSE "j_model_info"
                  /\ UNCHANGED exitStatus
             ELSE /\ Exit(EXIT_SUCCESS)
                  /\ UNCHANGED tfjs_files
    /\ cur' = 1
    /\ uploaded_files' = << >>
    /\ UNCHANGED << TfjsFrame, tfjs_model_info, scaler_url, firebase, trace,
                    blobs, configDoc >>

\* upload_tfjs_model, line 53: blob.upload_from_filename (not guarded)
TfjsUpload ==
    /\ script = "deploy_tfjs" /\ pc = "j_upload"
    /\ trace' = Append(trace, << "upload_from_filename", TfjsBlobName(tfjs_files[cur]) >>)
    /\ \E ok \in BOOLEAN :
          IF ok
             THEN /\ blobs' = [ blobs EXCEPT ![TfjsBlobName(tfjs_files[cur])] =
                                  [ present |-> TRUE, public |-> FALSE,
                                    checksum_md5 |-> NoChecksum ] ]
                  /\ pc' = "j_public"
                  /\ UNCHANGED exitStatus
             ELSE /\ Abort
                  /\ UNCHANGED blobs
    /\ UNCHANGED << TfjsFrame, tfjsVars, cur, firebase, configDoc >>

\* Variant of TfjsMakePublic: a blob that cannot be made public is deleted
\* again.
TfjsMakePublicCleanup ==
    /\ script = "deploy_tfjs" /\ pc = "j_public"
    /\ trace' = Append(trace, << "make_public", TfjsBlobName(tfjs_files[cur]) >>)
    /\ \E ok \in BOOLEAN :
          IF ok
             THEN /\ blobs' = [ blobs EXCEPT ![TfjsBlobName(tfjs_files[cur])].public = TRUE ]
                  /\ uploaded_files' = Append(uploaded_files,
                        [ name |-> tfjs_files[cur],
                          url |-> TfjsPublicUrl(TfjsBlobName(tfjs_files[cur])) ])
                  /\ IF cur < Len(tfjs_files)
                        THEN pc' = "j_upload" /\ cur' = cur + 1
                        ELSE pc' = "j_model_info" /\ UNCHANGED cur
                  /\ UNCHANGED exitStatus
             ELSE /\ Abort
                  /\ blobs' = [ blobs EXCEPT ![TfjsBlobName(tfjs_files[cur])] = NoBlob ]
                  /\ UNCHANGED << uploaded_files, cur >>
    /\ UNCHANGED << TfjsFrame, tfjs_files, tfjs_model_info, scaler_url, firebase,
                    configDoc >>

\* upload_tfjs_model, lines 54-60: blob.make_public (not guarded) and
\* uploaded_files.append
TfjsMakePublic ==
    /\ script = "deploy_tfjs" /\ pc = "j_public"
    /\ trace' = Append(trace, << "make_public", TfjsBlobName(tfjs_files[cur]) >>)
    /\ \E ok \in BOOLEAN :
          IF ok
             THEN /\ blobs' = [ blobs EXCEPT ![TfjsBlobName(tfjs_files[cur])].public = TRUE ]
                  /\ uploaded_files' = Append(uploaded_files,
                        [ name |-> tfjs_files[cur],
                          url |-> TfjsPublicUrl(TfjsBlobName(tfjs_files[cur])) ])
                  /\ IF cur < Len(tfjs_files)
                        THEN pc' = "j_upload" /\ cur' = cur + 1
                        ELSE pc' = "j_model_info" /\ UNCHANGED cur
                  /\ UNCHANGED exitStatus
             ELSE /\ Abort
                  /\ UNCHANGED << blobs, uploaded_files, cur >>
    /\ UNCHANGED << TfjsFrame, tfjs_files, tfjs_model_info, scaler_url, firebase,
                    configDoc >>

\* next((f['url'] for f in uploaded_files if f['name'] == 'model.json'), None)
ModelJsonUrl(files) ==
    IF \E i \in 1..Len(files) : files[i].name = "model.json"
       THEN TfjsPublicUrl(TfjsBlobName("model.json"))
       ELSE NoUrl

\* upload_tfjs_model, lines 62-74: the returned dict; main, line 151: a dict
\* with two keys is never falsy
TfjsModelInfo ==
    /\ script = "deploy_tfjs" /\ pc = "j_model_info"
    /\ tfjs_model_info' = [ kind |-> "dict",
                            model_url |-> ModelJsonUrl(uploaded_files),
                            files |-> uploaded_files ]
    /\ pc' = "j_scaler"
    /\ UNCHANGED << TfjsFrame, tfjs_files, uploaded_files, scaler_url, cur,
                    firebase, exitStatus, trace, blobs, configDoc >>

\* upload_scaler_json, lines 80-88: None when scaler.pkl is missing;
\* joblib.load is not guarded
TfjsScaler ==
    /\ script = "deploy_tfjs" /\ pc = "j_scaler"
    /\ \E scalerExists \in BOOLEAN, loadOk \in BOOLEAN :
          IF ~scalerExists
             THEN /\ pc' = "j_update_config"
                  /\ UNCHANGED << exitStatus, trace >>
          ELSE IF loadOk
             THEN /\ pc' = "j_scaler_upload"
                  /\ UNCHANGED << exitStatus, trace >>
             ELSE /\ Abort
                  /\ trace' = Append(trace, << "raised", "joblib.load" >>)
    /\ scaler_url' = NoUrl
    /\ UNCHANGED << TfjsFrame, tfjs_files, uploaded_files, tfjs_model_info, cur,
                    firebase, blobs, configDoc >>

\* upload_scaler_json, lines 104-108: blob.upload_from_string (not guarded)
TfjsScalerUpload ==
    /\ script = "deploy_tfjs" /\ pc = "j_scaler_upload"
    /\ trace' = Append(trace, << "upload_from_string", ScalerBlobName >>)
    /\ \E ok \in BOOLEAN :
          IF ok
             THEN /\ blobs' = [ blobs EXCEPT ![ScalerBlobName] =
                                  [ present |-> TRUE, public |-> FALSE,
                                    checksum_md5 |-> NoChecksum ] ]
                  /\ pc' = "j_scaler_public"
                  /\ UNCHANGED exitStatus
             ELSE /\ Abort
                  /\ UNCHANGED blobs
    /\ UNCHANGED << TfjsFrame, tfjsVars, cur, firebase, configDoc >>

\* upload_scaler_json, lines 109-114: blob.make_public (not guarded), return
\* blob.public_url
TfjsScalerPublic ==
    /\ script = "deploy_tfjs" /\ pc = "j_scaler_public"
    /\ trace' = Append(trace, << "make_public", ScalerBlobName >>)
    /\ \E ok \in BOOLEAN :
          IF ok
             THEN /\ blobs' = [ blobs EXCEPT ![ScalerBlobName].public = TRUE ]
                  /\ scaler_url' = TfjsPublicUrl(ScalerBlobName)
                  /\ pc' = "j_update_config"
                  /\ UNCHANGED exitStatus
             ELSE /\ Abort
                  /\ UNCHANGED << blobs, scaler_url >>
    /\ UNCHANGED << TfjsFrame, tfjs_files, uploaded_files, tfjs_model_info, cur,
                    firebase, configDoc >>

\* update_firestore_config, lines 122-134: config_data['models']
TfjsConfigModels(info, url) ==
    [ schedule_predictor |->
        [ currentVersion |-> "v1",
          format |-> "tfjs",
          modelUrl |-> info.model_url,
          scalerUrl |-> url,
          deployed |-> TRUE,
          deployedAt |-> "SERVER_TIMESTAMP" ] ]

\* main, lines 158-162, with update_firestore_config, lines 116-137:
\* config_ref.set(config_data, merge=True) is not guarded
TfjsUpdateConfig ==
    /\ script = "deploy_tfjs" /\ pc = "j_update_config"
    /\ trace' = Append(trace, << "update_firestore_config" >>)
    /\ \E setOk \in BOOLEAN :
          IF setOk
             THEN /\ configDoc' = FirestoreMerge(configDoc,
                                     TfjsConfigModels(tfjs_model_info, scaler_url))
                  /\ Exit(EXIT_SUCCESS)
             ELSE /\ Abort
                  /\ UNCHANGED configDoc
    /\ UNCHANGED << TfjsFrame, tfjsVars, cur, firebase, blobs >>

TfjsNext ==
    \/ TfjsInit
    \/ TfjsModelDir
    \/ TfjsUpload
    \/ TfjsMakePublic
    \/ TfjsModelInfo
    \/ TfjsScaler
    \/ TfjsScalerUpload
    \/ TfjsScalerPublic
    \/ TfjsUpdateConfig

---------------------------------------------------------------------------
(* collect_firebase_data.py, with firebase_setup.py *)

\* The collections main reads, in the order of its calls (lines 116-118):
\* collect_all_users_data, collect_action_logs, collect_schedules
Collections == << "sensor_logs", "logs", "schedules" >>

\* output_path of each collect function (days=90)
CsvFile(c) ==
    CASE c = "sensor_logs" -> "firebase_sensor_logs_90days.csv"
      [] c = "logs"        -> "firebase_action_logs_90days.csv"
      [] c = "schedules"   -> "firebase_schedules.csv"

\* Largest number of documents a query returns.
MaxDocs == 2

\* A document is the set of its fields.  A query with a where() filter on a
\* field returns only documents that have the field: sensor_logs documents
\* have 'timestamp', logs documents 'eventType' and 'timestamp'.
DocKinds(c) ==
    CASE c = "sensor_logs" ->
            { { "timestamp", "userId", "deviceId" }, { "timestamp", "deviceId" },
              { "timestamp", "userId" }, { "timestamp" } }
      [] c = "logs" ->
            { { "eventType", "timestamp", "userId" }, { "eventType", "timestamp" } }
      [] c = "schedules" ->
            { { "userId", "deviceId" }, {} }

\* query.stream(): the documents of a query result
QueryResults(c) ==
    UNION { [ 1..n -> DocKinds(c) ] : n \in 0..MaxDocs }

\* doc.to_dict(), with data['doc_id'] = doc.id in collect_all_users_data
ToDict(c, doc) == IF c = "sensor_logs" THEN doc \cup { "doc_id" } ELSE doc

\* pd.DataFrame(list of dicts): one row per dict, the columns are the keys
DataFrame(dicts) ==
    [ rows |-> dicts,
      columns |-> UNION { dicts[i] : i \in 1..Len(dicts) } ]

\* The columns a collect function reads from df before it saves it:
\* df['userId'], df['deviceId'], df['timestamp'] at lines 42-44
ColumnsRead(c) ==
    IF c = "sensor_logs" THEN { "userId", "deviceId", "timestamp" } ELSE {}

NoData == << >>

\* firebase_setup.initialize_firebase, lines 9-33: None when the key file is
\* missing; credentials.Certificate / initialize_app / firestore.client are
\* not guarded.  main, lines 105-109: return when db is None.
CollectInit ==
    /\ script = "collect" /\ pc = "f_init"
    /\ \E credExists \in BOOLEAN, sdkOk \in BOOLEAN :
          IF ~credExists
             THEN /\ firebase' = "none"
                  /\ Exit(EXIT_SUCCESS)
                  /\ UNCHANGED trace
          ELSE IF ~sdkOk
             THEN /\ Abort
                  /\ trace' = Append(trace, << "raised", "initialize_firebase" >>)
                  /\ UNCHANGED firebase
             ELSE /\ firebase' = "ok"
                  /\ pc' = "f_query"
                  /\ UNCHANGED << exitStatus, trace >>
    /\ UNCHANGED << script, preprocessVars, metadataVars, collectVars, tfjsVars, runs, outputFiles,
                    tfliteDir, tfliteContent, cur, seenLocal, upChecksum,
                    upResult, model_info, uploadReturns, blobs, configDoc,
                    configRet, versionDocs, all_verified, convertVars, trainVars >>

\* Variant of CollectQuery: a failed query leaves an empty result and the
\* function goes on.
CollectQuerySwallowed ==
    /\ script = "collect" /\ pc = "f_query"
    /\ \E ok \in BOOLEAN, docs \in QueryResults(Collections[cur]) :
          /\ all_data' = IF ok THEN [ i \in 1..Len(docs) |->
                                        ToDict(Collections[cur], docs[i]) ]
                               ELSE NoData
          /\ trace' = Append(trace, IF ok THEN << "query", Collections[cur] >>
                                          ELSE << "raised", Collections[cur], "query" >>)
          /\ pc' = "f_frame"
          /\ UNCHANGED exitStatus
    /\ UNCHANGED << script, preprocessVars, metadataVars, tfjsVars, runs, outputFiles, collected, runVars >>

\* db.collection(...).where(...).stream() and the loop over docs
\* (lines 27-36, 59-68, 83-88): a failing query raises out of main
CollectQuery ==
    /\ script = "collect" /\ pc = "f_query"
    /\ \E ok \in BOOLEAN, docs \in QueryResults(Collections[cur]) :
          IF ok
             THEN /\ all_data' = [ i \in 1..Len(docs) |->
                                     ToDict(Collections[cur], docs[i]) ]
                  /\ trace' = Append(trace, << "query", Collections[cur] >>)
                  /\ pc' = "f_frame"
                  /\ UNCHANGED exitStatus
             ELSE /\ Abort
                  /\ trace' = Append(trace, << "raised", Collections[cur], "query" >>)
                  /\ UNCHANGED all_data
    /\ UNCHANGED << script, preprocessVars, metadataVars, tfjsVars, runs, outputFiles, collected, runVars >>

\* df = pd.DataFrame(...) and the prints (lines 39-44, 70-72, 90-92):
\* df['userId'] raises KeyError when no document has the field
CollectFrame ==
    /\ script = "collect" /\ pc = "f_frame"
    /\ IF ColumnsRead(Collections[cur]) \subseteq DataFrame(all_data).columns
          THEN /\ pc' = "f_save"
               /\ UNCHANGED << exitStatus, trace >>
          ELSE /\ Abort
               /\ trace' = Append(trace, << "raised", Collections[cur], "KeyError" >>)
    /\ UNCHANGED << script, preprocessVars, metadataVars, tfjsVars, runs, outputFiles, collectVars, runVars >>

\* df.to_csv(output_path) and return df (lines 47-51, 74-78, 94-98); main,
\* lines 116-118, goes on to the next collect function
CollectSave ==
    /\ script = "collect" /\ pc = "f_save"
    /\ \E ok \in BOOLEAN :
          IF ok
             THEN /\ rawDir' = rawDir \cup { CsvFile(Collections[cur]) }
                  /\ trace' = Append(trace, << "to_csv", CsvFile(Collections[cur]) >>)
                  /\ collected' = DictSet(collected, Collections[cur],
                                          DataFrame(all_data))
                  /\ all_data' = NoData
                  /\ IF cur < Len(Collections)
                        THEN pc' = "f_query" /\ cur' = cur + 1
                        ELSE pc' = "f_summary" /\ UNCHANGED cur
                  /\ UNCHANGED exitStatus
             ELSE /\ Abort
                  /\ trace' = Append(trace, << "raised", Collections[cur], "to_csv" >>)
                  /\ UNCHANGED << rawDir, collected, all_data, cur >>
    /\ UNCHANGED << script, preprocessVars, metadataVars, tfjsVars, runs, outputFiles, tfliteDir,
                    tfliteContent, deployVars, convertVars, sensor_df,
                    action_df, nSequences >>

\* main, lines 120-128: the summary
CollectSummary ==
    /\ script = "collect" /\ pc = "f_summary"
    /\ trace' = Append(trace, << "Collection Summary" >>)
    /\ Exit(EXIT_SUCCESS)
    /\ UNCHANGED << script, preprocessVars, metadataVars, tfjsVars, runs, outputFiles, collectVars, runVars >>

CollectNext ==
    \/ CollectInit
    \/ CollectQuery
    \/ CollectFrame
    \/ CollectSave
    \/ CollectSummary

---------------------------------------------------------------------------
(* DataPreprocessor of train_model.py, train_smart_home.py and             *)
(* train_with_public_data.py, applied to enumerated sensor frames          *)

\* script value "train" is train_model.py
TrainingScripts == { "train", "train_smart_home", "train_with_public_data" }

\* Clock hours 0 .. MaxHour the sensor records fall in.
MaxHour == 4
Hours == 0..MaxHour

\* Largest number of sensor records in one clock hour.
MaxRecordsPerHour == 256

\* Largest sequence_length create_sequences is called with here (main passes
\* SEQUENCE_LENGTH).
MaxSequenceLength == 3

\* The records of one clock hour: their number n, the number with
\* fanSpeed > 0 and the number with ledBrightness > 0.
NoLoad == [ n |-> 0, fan_on |-> 0, led_on |-> 0 ]
Loads == { NoLoad,
           [ n |-> 1, fan_on |-> 0, led_on |-> 1 ],
           [ n |-> 1, fan_on |-> 1, led_on |-> 0 ],
           [ n |-> MaxRecordsPerHour, fan_on |-> MaxRecordsPerHour,
             led_on |-> MaxRecordsPerHour - 1 ] }

\* A number as numerator and denominator (denominator > 0)
Rat(num, den) == << num, den >>
RatDiv(q, d) == << q[1], q[2] * d >>
InUnitRange(q) == 0 <= q[1] /\ q[1] <= q[2]

\* df.groupby('hour'): the hours that have a record, ascending
HoursWithRecords(records) == { h \in DOMAIN records : records[h].n > 0 }

RECURSIVE Ascending(_)
Ascending(S) ==
    IF S = {} THEN << >>
    ELSE LET m == CHOOSE x \in S : \A y \in S : x <= y
         IN  << m >> \o Ascending(S \ { m })

\* train_model.py lines 162-163: (x > 0).sum() * 10; the other two scripts:
\* (x > 0).sum()
MINUTES_PER_RECORD == 10
UsageFactor(s) == IF s = "train" THEN MINUTES_PER_RECORD ELSE 1

\* One row of the aggregated frame: the hour, and the columns
\* 'fanSpeed_<lambda>' and 'ledBrightness_<lambda>'.  The other columns are
\* functions of the records of the hour and stand as the hour itself.
Aggregate(s, records, h) ==
    [ hour |-> h,
      fan  |-> Rat(records[h].fan_on * UsageFactor(s), 1),
      led  |-> Rat(records[h].led_on * UsageFactor(s), 1) ]

\* interpolate(method='linear') between the rows of hours i < k < j
Lerp(a, b, i, j, k) == Rat(a[1] * (j - i) + (b[1] - a[1]) * (k - i), j - i)

\* train_smart_home.py lines 206-208: reindex to every hour between the first
\* and the last, and interpolate the hours without records
FilledRow(s, records, hrs, h) ==
    IF h \in hrs THEN Aggregate(s, records, h)
    ELSE LET i == CHOOSE x \in hrs : x < h /\ \A y \in hrs : y < h => y <= x
             j == CHOOSE x \in hrs : x > h /\ \A y \in hrs : y > h => x <= y
             a == Aggregate(s, records, i)
             b == Aggregate(s, records, j)
         IN  [ hour |-> h,
               fan  |-> Lerp(a.fan, b.fan, i, j, h),
               led  |-> Lerp(a.led, b.led, i, j, h) ]

NoFrame == [ raised |-> FALSE, rows |-> << >> ]

\* create_hourly_features.  train_model.py and train_with_public_data.py: one
\* row per hour that has a record (groupby), none for the hours in between.
\* train_smart_home.py: one row per hour from the first to the last.
\* On a frame without records: train_model.py raises KeyError at
\* sensor_df['timestamp'] (pd.DataFrame([]) has no columns, line 153),
\* train_smart_home.py raises at pd.date_range(start=NaT, ...) (line 206),
\* train_with_public_data.py returns a frame of 0 rows.
create_hourly_features(s, records) ==
    LET hrs == HoursWithRecords(records)
        asc == Ascending(hrs)
    IN  IF hrs = {} /\ s \in { "train", "train_smart_home" }
           THEN [ raised |-> TRUE, rows |-> << >> ]
        ELSE IF s = "train_smart_home"
           THEN [ raised |-> FALSE,
                  rows |-> [ k \in 1..(asc[Len(asc)] - asc[1] + 1) |->
                               FilledRow(s, records, hrs, asc[1] + k - 1) ] ]
           ELSE [ raised |-> FALSE,
                  rows |-> [ k \in 1..Len(asc) |-> Aggregate(s, records, asc[k]) ] ]

\* df[feature_cols].values
Features(df) == [ k \in 1..Len(df) |-> << "features", df[k].hour >> ]

\* df[target_cols].values (train_model.py line 234), / 255.0 in
\* train_smart_home.py line 279 and train_with_public_data.py line 198
TARGET_SCALE == 255
Targets(s, row) ==
    IF s = "train" THEN << row.fan, row.led >>
    ELSE << RatDiv(row.fan, TARGET_SCALE), RatDiv(row.led, TARGET_SCALE) >>

NoSequences == [ raised |-> FALSE, fitted |-> FALSE, X |-> << >>, y |-> << >> ]

\* Variant of create_sequences: the target is taken from the last row of the
\* window.
create_sequences_target_in_window(s, df, L) ==
    IF s = "train_smart_home" /\ Len(df) <= L
       THEN NoSequences
    ELSE IF Len(df) = 0
       THEN [ raised |-> TRUE, fitted |-> FALSE, X |-> << >>, y |-> << >> ]
    ELSE LET features_normalized == Transform(Features(df))
         IN  [ raised |-> FALSE, fitted |-> TRUE,
               X |-> [ i \in 1..(Len(df) - L) |->
                         PySlice(features_normalized, i - 1, i - 1 + L) ],
               y |-> [ i \in 1..(Len(df) - L) |-> Targets(s, df[i + L - 1]) ] ]

\* create_sequences.  train_smart_home.py returns two empty arrays, without
\* fitting the scaler, when len(df) <= sequence_length (lines 269-272).
\* StandardScaler.fit_transform raises ValueError on an array of 0 samples,
\* which the other two scripts pass it for an empty frame.  Loop index i of
\* the code is i - 1 here, df.iloc[k] is df[k + 1].
create_sequences(s, df, L) ==
    IF s = "train_smart_home" /\ Len(df) <= L
       THEN NoSequences
    ELSE IF Len(df) = 0
       THEN [ raised |-> TRUE, fitted |-> FALSE, X |-> << >>, y |-> << >> ]
    ELSE LET features_normalized == Transform(Features(df))
         IN  [ raised |-> FALSE, fitted |-> TRUE,
               X |-> [ i \in 1..(Len(df) - L) |->
                         PySlice(features_normalized, i - 1, i - 1 + L) ],
               y |-> [ i \in 1..(Len(df) - L) |-> Targets(s, df[i + L]) ] ]

\* main: hourly_df = preprocessor.create_hourly_features(...)
PreprocessHourly ==
    /\ script \in TrainingScripts /\ pc = "p_hourly"
    /\ hourly_df' = create_hourly_features(script, sensor_records)
    /\ IF hourly_df'.raised
          THEN Abort
          ELSE pc' = "p_sequences" /\ UNCHANGED exitStatus
    /\ UNCHANGED << script, trace, runVars, metadataVars, collectVars, tfjsVars, runs, outputFiles,
                    sensor_records, seqLength, sequences >>

\* main: X, y = preprocessor.create_sequences(hourly_df, SEQUENCE_LENGTH)
PreprocessSequences ==
    /\ script \in TrainingScripts /\ pc = "p_sequences"
    /\ sequences' = create_sequences(script, hourly_df.rows, seqLength)
    /\ IF sequences'.raised
          THEN Abort
          ELSE pc' = "p_done" /\ UNCHANGED exitStatus
    /\ UNCHANGED << script, trace, runVars, metadataVars, collectVars, tfjsVars, runs, outputFiles,
                    sensor_records, seqLength, hourly_df >>

PreprocessNext ==
    \/ PreprocessHourly
    \/ PreprocessSequences

---------------------------------------------------------------------------
(* train_smart_home.py: main *)

\* the variables main of train_smart_home.py does not use
SmartHomeFrame == << script, runs, metadataVars, collectVars, tfjsVars,
                     tfliteDir, tfliteContent, cur, deployVars, processed, calib,
                     conversion_results, tfliteVerified, assetsDir, copyIdx,
                     copied_count, copied, copy_success, sensor_df, action_df,
                     nSequences >>

\* main, lines 620-623, with load_kaggle_dataset, lines 55-105: None when no
\* dataset file could be read (main returns); the combined frame otherwise;
\* combined_df.iloc[0]['time'] is not guarded
SmartHomeLoad ==
    /\ script = "train_smart_home" /\ pc = "h_load"
    /\ \E outcome \in { "None", "raise", "frame" } :
          CASE outcome = "None" ->
                  /\ trace' = Append(trace, << "Training aborted" >>)
                  /\ Exit(EXIT_SUCCESS)
                  /\ UNCHANGED sensor_records
            [] outcome = "raise" ->
                  /\ trace' = Append(trace, << "raised", "load_kaggle_dataset" >>)
                  /\ Abort
                  /\ UNCHANGED sensor_records
            [] outcome = "frame" ->
                  /\ \E records \in [ Hours -> Loads ] : sensor_records' = records
                  /\ pc' = "h_convert"
                  /\ UNCHANGED << exitStatus, trace >>
    /\ UNCHANGED << SmartHomeFrame, seqLength, hourly_df, sequences, savedModels,
                    rawDir, outputFiles >>

\* main, lines 626-630: convert_to_smartsync_format and
\* smartsync_df.to_csv(RAW_DATA_DIR / 'smartsync_format.csv') (not guarded)
SmartHomeConvert ==
    /\ script = "train_smart_home" /\ pc = "h_convert"
    /\ \E ok \in BOOLEAN :
          IF ok THEN /\ rawDir' = rawDir \cup { "smartsync_format.csv" }
                     /\ pc' = "h_hourly"
                     /\ UNCHANGED << exitStatus, trace >>
                ELSE /\ Abort
                     /\ trace' = Append(trace, << "raised", "convert_to_smartsync_format" >>)
                     /\ UNCHANGED rawDir
    /\ UNCHANGED << SmartHomeFrame, preprocessVars, savedModels, outputFiles >>

\* main, lines 633-635: create_hourly_features and add_temporal_features (a
\* column per feature, the rows stay)
SmartHomeHourly ==
    /\ script = "train_smart_home" /\ pc = "h_hourly"
    /\ hourly_df' = create_hourly_features(script, sensor_records)
    /\ IF hourly_df'.raised
          THEN Abort /\ trace' = Append(trace, << "raised", "create_hourly_features" >>)
          ELSE pc' = "h_features_csv" /\ UNCHANGED << exitStatus, trace >>
    /\ UNCHANGED << SmartHomeFrame, sensor_records, seqLength, sequences,
                    savedModels, rawDir, outputFiles >>

\* main, lines 638-639: hourly_df.to_csv(PROCESSED_DATA_DIR /
\* 'hourly_features.csv') (not guarded)
SmartHomeFeaturesCsv ==
    /\ script = "train_smart_home" /\ pc = "h_features_csv"
    /\ \E ok \in BOOLEAN :
          IF ok THEN /\ outputFiles' = outputFiles \cup { "hourly_features.csv" }
                     /\ pc' = "h_sequences"
                     /\ UNCHANGED << exitStatus, trace >>
                ELSE /\ Abort
                     /\ trace' = Append(trace, << "raised", "to_csv" >>)
                     /\ UNCHANGED outputFiles
    /\ UNCHANGED << SmartHomeFrame, preprocessVars, savedModels, rawDir >>

\* main, line 641: X, y = preprocessor.create_sequences(hourly_df,
\* SEQUENCE_LENGTH); main does not look at the result
SmartHomeSequences ==
    /\ script = "train_smart_home" /\ pc = "h_sequences"
    /\ sequences' = create_sequences(script, hourly_df.rows, seqLength)
    /\ trace' = Append(trace, << "create_sequences" >>)
    /\ IF sequences'.raised
          THEN Abort
          ELSE pc' = "h_split" /\ UNCHANGED exitStatus
    /\ UNCHANGED << SmartHomeFrame, sensor_records, seqLength, hourly_df,
                    savedModels, rawDir, outputFiles >>

\* Variant of SmartHomeSplit: the split hands on whatever it is given.
SmartHomeSplitAny ==
    /\ script = "train_smart_home" /\ pc = "h_split"
    /\ trace' = Append(trace, << "split" >>)
    /\ pc' = "h_train" /\ UNCHANGED exitStatus
    /\ UNCHANGED << SmartHomeFrame, preprocessVars, savedModels, rawDir, outputFiles >>

\* main, lines 644-654: the two train_test_split calls, which raise
\* ValueError when a side of a split would be empty; the prints divide by
\* len(X) > 0
SmartHomeSplit ==
    /\ script = "train_smart_home" /\ pc = "h_split"
    /\ trace' = Append(trace, << "split" >>)
    /\ IF SplitOk(Len(sequences.X))
          THEN pc' = "h_train" /\ UNCHANGED exitStatus
          ELSE Abort
    /\ UNCHANGED << SmartHomeFrame, preprocessVars, savedModels, rawDir, outputFiles >>

\* main, lines 657-660: train_model and evaluate_model (not guarded)
SmartHomeTrain ==
    /\ script = "train_smart_home" /\ pc = "h_train"
    /\ trace' = Append(trace, << "train" >>)
    /\ \E ok \in BOOLEAN :
          IF ok THEN pc' = "h_save" /\ UNCHANGED exitStatus
                ELSE Abort
    /\ UNCHANGED << SmartHomeFrame, preprocessVars, savedModels, rawDir, outputFiles >>

\* save_model, lines 534-536: model.save(MODELS_DIR / 'schedule_predictor_v1')
SmartHomeSaveModel ==
    /\ script = "train_smart_home" /\ pc = "h_save"
    /\ trace' = Append(trace, << "save" >>)
    /\ \E ok \in BOOLEAN :
          IF ok THEN /\ savedModels' = savedModels \cup { "schedule_predictor" }
                     /\ pc' = "h_save_scaler"
                     /\ UNCHANGED exitStatus
                ELSE Abort /\ UNCHANGED savedModels
    /\ UNCHANGED << SmartHomeFrame, preprocessVars, rawDir, outputFiles >>

\* save_model, lines 539-541: joblib.dump(preprocessor.scaler, 'scaler.pkl')
SmartHomeSaveScaler ==
    /\ script = "train_smart_home" /\ pc = "h_save_scaler"
    /\ \E ok \in BOOLEAN :
          IF ok THEN /\ outputFiles' = outputFiles \cup { "scaler.pkl" }
                     /\ pc' = "h_save_metadata"
                     /\ UNCHANGED exitStatus
                ELSE Abort /\ UNCHANGED outputFiles
    /\ UNCHANGED << SmartHomeFrame, preprocessVars, trace, savedModels, rawDir >>

\* save_model, lines 544-569: metadata.json; main, lines 666-683
SmartHomeSaveMetadata ==
    /\ script = "train_smart_home" /\ pc = "h_save_metadata"
    /\ \E ok \in BOOLEAN :
          IF ok THEN /\ outputFiles' = outputFiles \cup { "metadata.json" }
                     /\ trace' = Append(trace, << "TRAINING COMPLETE" >>)
                     /\ Exit(EXIT_SUCCESS)
                ELSE Abort /\ UNCHANGED << outputFiles, trace >>
    /\ UNCHANGED << SmartHomeFrame, preprocessVars, savedModels, rawDir >>

SmartHomeNext ==
    \/ SmartHomeLoad
    \/ SmartHomeConvert
    \/ SmartHomeHourly
    \/ SmartHomeFeaturesCsv
    \/ SmartHomeSequences
    \/ SmartHomeSplit
    \/ SmartHomeTrain
    \/ SmartHomeSaveModel
    \/ SmartHomeSaveScaler
    \/ SmartHomeSaveMetadata

---------------------------------------------------------------------------
(* One run of one script *)

Scripts == { "deploy", "convert", "train", "collect", "deploy_tfjs",
             "train_smart_home" }

EntryPoint(s) ==
    CASE s = "deploy"  -> "d_check_local"
      [] s = "convert" -> "c_exists"
      [] s = "train"   -> "t_collector"
      [] s = "collect" -> "f_init"
      [] s = "deploy_tfjs" -> "j_init"
      [] s = "train_smart_home" -> "h_load"

\* The preprocessing variables when no preprocessing function is applied
PreprocessIdle ==
    /\ sensor_records = [ h \in Hours |-> NoLoad ]
    /\ seqLength = SEQUENCE_LENGTH
    /\ hourly_df = NoFrame
    /\ sequences = NoSequences

\* No metadata read yet; the .json files models/tflite holds are old ones
MetadataIdle ==
    /\ training_metadata = [ m \in ModelNames |-> NoMetadataFile ]
    /\ jsonContent = [ m \in ModelNames |-> StaleMetadata ]

\* collect_firebase_data.py before its first query
CollectIdle ==
    /\ all_data = NoData
    /\ collected = EmptyDict

\* deploy_tfjs.py before upload_tfjs_model
TfjsIdle ==
    /\ tfjs_files = << >>
    /\ uploaded_files = << >>
    /\ tfjs_model_info = NoModelInfo
    /\ scaler_url = NoUrl

Init ==
    /\ script \in Scripts
    /\ pc = EntryPoint(script)
    /\ exitStatus = "running"
    /\ trace = << >>
    \* train_smart_home.main passes its SEQUENCE_LENGTH to create_sequences
    /\ sensor_records = [ h \in Hours |-> NoLoad ]
    /\ seqLength \in IF script = "train_smart_home" THEN 1..MaxSequenceLength
                                                    ELSE { SEQUENCE_LENGTH }
    /\ hourly_df = NoFrame
    /\ sequences = NoSequences
    /\ MetadataIdle
    /\ CollectIdle
    /\ TfjsIdle
    /\ runs = 1
    /\ outputFiles = {}
    /\ cur = 1
    \* models/tflite holds whatever earlier conversion runs left there
    /\ tfliteDir \in IF script \in { "deploy", "convert" }
                     THEN SUBSET (TfliteFiles \cup JsonFiles)
                     ELSE { {} }
    /\ tfliteContent \in IF script = "deploy" THEN [ ModelNames -> Contents ]
                         ELSE { [ m \in ModelNames |-> 1 ] }
    /\ seenLocal = {}
    /\ firebase = "unset"
    /\ upChecksum = NoChecksum
    /\ upResult = NoneResult
    /\ model_info = EmptyDict
    /\ uploadReturns = EmptyDict
    /\ blobs = [ b \in BlobNames |-> NoBlob ]
    /\ configDoc = NoDoc
    /\ configRet = FALSE
    /\ versionDocs = {}
    /\ all_verified = FALSE
    \* models/saved_models holds whatever earlier training runs left there
    /\ savedModels \in IF script = "convert" THEN SUBSET ModelNames ELSE { {} }
    /\ processed = NotRead
    /\ calib = NoCalib
    /\ conversion_results = EmptyDict
    /\ tfliteVerified = {}
    /\ assetsDir = {}
    /\ copyIdx = 1
    /\ copied_count = 0
    /\ copied = {}
    /\ copy_success = FALSE
    /\ sensor_df = Unset
    /\ action_df = Unset
    /\ rawDir = {}
    /\ nSequences = 0

Next ==
    \/ DeployNext
    \/ ConvertNext
    \/ TrainNext
    \/ CollectNext
    \/ TfjsNext
    \/ SmartHomeNext

Spec == Init /\ [][Next]_vars

---------------------------------------------------------------------------
(* The preprocessing functions on every sensor frame of the bounds *)

\* The variables of the script runs, before a run
RunIdle ==
    /\ runs = 1
    /\ outputFiles = {}
    /\ tfliteDir = {}
    /\ tfliteContent = [ m \in ModelNames |-> 1 ]
    /\ cur = 1
    /\ seenLocal = {}
    /\ firebase = "unset"
    /\ upChecksum = NoChecksum
    /\ upResult = NoneResult
    /\ model_info = EmptyDict
    /\ uploadReturns = EmptyDict
    /\ blobs = [ b \in BlobNames |-> NoBlob ]
    /\ configDoc = NoDoc
    /\ configRet = FALSE
    /\ versionDocs = {}
    /\ all_verified = FALSE
    /\ savedModels = {}
    /\ processed = NotRead
    /\ calib = NoCalib
    /\ conversion_results = EmptyDict
    /\ tfliteVerified = {}
    /\ assetsDir = {}
    /\ copyIdx = 1
    /\ copied_count = 0
    /\ copied = {}
    /\ copy_success = FALSE
    /\ sensor_df = Unset
    /\ action_df = Unset
    /\ rawDir = {}
    /\ nSequences = 0

PreprocessInit ==
    /\ script \in TrainingScripts
    /\ pc = "p_hourly"
    /\ exitStatus = "running"
    /\ trace = << >>
    /\ RunIdle
    /\ MetadataIdle
    /\ CollectIdle
    /\ TfjsIdle
    /\ sensor_records \in [ Hours -> Loads ]
    /\ seqLength \in 1..MaxSequenceLength
    /\ hourly_df = NoFrame
    /\ sequences = NoSequences

PreprocessSpec == PreprocessInit /\ [][PreprocessNext]_vars

---------------------------------------------------------------------------
(* Runs of the training, conversion and deployment scripts, one after the
   other, over the same directories, bucket and Firestore database *)

PipelineScripts == { "train", "convert", "deploy" }

\* Number of runs in a sequence
MaxRuns == 3

\* The files, blobs and documents a run leaves for the runs after it
artifactVars == << tfliteDir, tfliteContent, savedModels, assetsDir, rawDir,
                   jsonContent, blobs, configDoc, versionDocs >>

\* Nothing was trained, converted or deployed yet
PipelineInit ==
    /\ script \in PipelineScripts
    /\ pc = EntryPoint(script)
    /\ exitStatus = "running"
    /\ trace = << >>
    /\ RunIdle
    /\ PreprocessIdle
    /\ MetadataIdle
    /\ CollectIdle
    /\ TfjsIdle

\* The process of a run has ended and the next script is started: its
\* variables are those of a fresh process, the artifacts are as the earlier
\* runs left them
NextRun ==
    /\ pc \in { "exited", "raised" }
    /\ runs < MaxRuns
    /\ runs' = runs + 1
    /\ script' \in PipelineScripts
    /\ pc' = EntryPoint(script')
    /\ exitStatus' = "running"
    /\ trace' = << >>
    /\ cur' = 1
    /\ seenLocal' = {}
    /\ firebase' = "unset"
    /\ upChecksum' = NoChecksum
    /\ upResult' = NoneResult
    /\ model_info' = EmptyDict
    /\ uploadReturns' = EmptyDict
    /\ configRet' = FALSE
    /\ all_verified' = FALSE
    /\ processed' = NotRead
    /\ calib' = NoCalib
    /\ conversion_results' = EmptyDict
    /\ tfliteVerified' = {}
    /\ copyIdx' = 1
    /\ copied_count' = 0
    /\ copied' = {}
    /\ copy_success' = FALSE
    /\ sensor_df' = Unset
    /\ action_df' = Unset
    /\ nSequences' = 0
    /\ training_metadata' = [ m \in ModelNames |-> NoMetadataFile ]
    /\ UNCHANGED << artifactVars, preprocessVars, collectVars, tfjsVars,
                    outputFiles >>

PipelineNext ==
    \/ TrainNext
    \/ ConvertNext
    \/ DeployNext
    \/ NextRun

PipelineSpec == PipelineInit /\ [][PipelineNext]_vars

---------------------------------------------------------------------------
(* Runs of deploy_model.py and tfjs/deploy_tfjs.py, one after the other, on
   the same bucket and the same Firestore database *)

DeployScripts == { "deploy", "deploy_tfjs" }

\* Number of deployment runs in a sequence
MaxDeployRuns == 2

\* The first deployment; models/tflite holds .tflite files only, with the
\* same contents in every run
RedeployInit ==
    /\ Init
    /\ script \in DeployScripts
    /\ tfliteDir \subseteq TfliteFiles
    /\ tfliteContent = [ m \in ModelNames |-> 1 ]

\* A deployment has ended and the next one is started as a fresh process; the
\* bucket and the Firestore documents are as the earlier runs left them, and
\* models/tflite holds what the conversions run in between left there
NextDeployment ==
    /\ script \in DeployScripts
    /\ pc \in { "exited", "raised" }
    /\ runs < MaxDeployRuns
    /\ runs' = runs + 1
    /\ script' \in DeployScripts
    /\ pc' = EntryPoint(script')
    /\ exitStatus' = "running"
    /\ trace' = << >>
    /\ tfliteDir' \in SUBSET TfliteFiles
    /\ cur' = 1
    /\ seenLocal' = {}
    /\ firebase' = "unset"
    /\ upChecksum' = NoChecksum
    /\ upResult' = NoneResult
    /\ model_info' = EmptyDict
    /\ uploadReturns' = EmptyDict
    /\ configRet' = FALSE
    /\ all_verified' = FALSE
    /\ tfjs_files' = << >>
    /\ uploaded_files' = << >>
    /\ tfjs_model_info' = NoModelInfo
    /\ scaler_url' = NoUrl
    /\ UNCHANGED << tfliteContent, blobs, configDoc, versionDocs, convertVars,
                    trainVars, preprocessVars, metadataVars, collectVars,
                    outputFiles >>

RedeployNext ==
    \/ DeployNext
    \/ TfjsNext
    \/ NextDeployment

RedeploySpec == RedeployInit /\ [][RedeployNext]_vars

---------------------------------------------------------------------------
(* Properties of the preprocessing functions *)

\* create_sequences was called on hourly_df in this state
SequencesCalled ==
    /\ script \in TrainingScripts
    /\ ~hourly_df.raised
    /\ pc \in { "p_done", "raised" }

\* hour of a row of an input window
HourOf(x) == x[2][2]

\* Sample i is the window of rows i .. i+L-1 (0-based, in order) with the
\* target columns of row i+L.
SampleAligned(i) ==
    LET rows == hourly_df.rows
        L == seqLength
    IN  /\ Len(sequences.X[i]) = L
        /\ \A k \in 1..L :
              sequences.X[i][k] = << "scaled", << "features", rows[i + k - 1].hour >> >>
        /\ sequences.y[i] = Targets(script, rows[i + L])
        /\ \A k \in 1..L : HourOf(sequences.X[i][k]) # rows[i + L].hour

SequencesOf(n) ==
    /\ ~sequences.raised
    /\ Len(sequences.X) = Max(0, n - seqLength)
    /\ Len(sequences.y) = Len(sequences.X)
    /\ \A i \in 1..Len(sequences.X) : SampleAligned(i)

\* C11 as stated: for an hourly frame of n rows and sequence length L,
\* create_sequences produces exactly max(0, n - L) samples, sample i being
\* the normalized rows i .. i+L-1 with the target columns of row i+L.
C11_SequencesAnyFrame ==
    SequencesCalled => SequencesOf(Len(hourly_df.rows))

\* C11, amended: the same for a frame of n >= 1 rows, and for every frame in
\* train_smart_home; on a frame of 0 rows create_sequences of
\* train_with_public_data (and of train_model) raises and returns nothing.
C11_Sequences ==
    SequencesCalled =>
        IF Len(hourly_df.rows) >= 1 \/ script = "train_smart_home"
           THEN SequencesOf(Len(hourly_df.rows))
           ELSE sequences.raised /\ pc = "raised"

\* C11 witness: train_model's create_sequences returned two samples whose
\* targets differ.
C11_Witness ==
    /\ script = "train" /\ pc = "p_done"
    /\ Len(sequences.X) >= 2
    /\ sequences.y[1] # sequences.y[2]

\* C12: in train_model and train_with_public_data, row k of every sequence
\* is the hour exactly one hour after row k-1, whatever the timestamps of
\* the sensor records.
C12_ConsecutiveHours ==
    (script \in { "train", "train_with_public_data" } /\ pc = "p_done") =>
        \A i \in 1..Len(sequences.X) :
            \A k \in 2..seqLength :
                HourOf(sequences.X[i][k]) = HourOf(sequences.X[i][k - 1]) + 1

\* C13: in train_smart_home and train_with_public_data, both target
\* components of every hourly row lie in [0, 1], whatever the number of
\* sensor records in the hour.
C13_TargetsInUnitRange ==
    (script \in { "train_smart_home", "train_with_public_data" }
        /\ pc = "p_done" /\ sequences.fitted) =>
        /\ \A k \in 1..Len(hourly_df.rows) :
              /\ InUnitRange(Targets(script, hourly_df.rows[k])[1])
              /\ InUnitRange(Targets(script, hourly_df.rows[k])[2])
        /\ \A i \in 1..Len(sequences.y) :
              InUnitRange(sequences.y[i][1]) /\ InUnitRange(sequences.y[i][2])

---------------------------------------------------------------------------
(* Properties of the model metadata *)

\* C14: the <model>.json a conversion run wrote is the training metadata.json
\* it found (an empty map when absent) overlaid with the TFLite fields: every
\* key the conversion sets has the conversion's value, also when the training
\* metadata had that key; every other training key keeps its value; nothing
\* of an earlier <model>.json remains.
C14_MetadataOverlay ==
    \A m \in ModelNames :
        (script = "convert" /\ Did(<< "wrote", JsonFile(m) >>)) =>
            LET training == training_metadata[m].data
                fields == TfliteFields(m, tfliteContent[m])
                written == jsonContent[m]
            IN  /\ JsonFile(m) \in tfliteDir
                /\ training_metadata[m].exists \/ training = EmptyDict
                /\ DOMAIN written = (DOMAIN training) \cup (DOMAIN fields)
                /\ \A k \in DOMAIN fields : written[k] = fields[k]
                /\ \A k \in (DOMAIN training) \ (DOMAIN fields) :
                      written[k] = training[k]

\* C14 witness: schedule_predictor.json was written over train_smart_home's
\* metadata, which has input_shape, output_shape, framework and
\* model_version too, and keeps its metrics and trained_date.
C14_Witness ==
    /\ script = "convert"
    /\ Did(<< "wrote", JsonFile("schedule_predictor") >>)
    /\ training_metadata["schedule_predictor"] = MetadataFile(TrainSmartHomeMetadata)
    /\ jsonContent["schedule_predictor"].framework = "TensorFlow Lite"
    /\ jsonContent["schedule_predictor"].metrics = "metrics"

---------------------------------------------------------------------------
(* Properties of collect_firebase_data.py *)

CollectionIndex(c) == CHOOSE i \in 1..Len(Collections) : Collections[i] = c

\* Position of an event in the order main prescribes; 0 for other events
CollectRank(e) ==
    IF e[1] = "query" THEN 2 * CollectionIndex(e[2]) - 1
    ELSE IF e[1] = "to_csv"
            THEN 2 * (CHOOSE i \in 1..Len(Collections) : CsvFile(Collections[i]) = e[2])
    ELSE IF e[1] = "Collection Summary" THEN 2 * Len(Collections) + 1
    ELSE 0

\* C16: without a Firestore client (key file missing) main issues no query
\* and writes no file; otherwise the queries and the CSV writes happen in the
\* order sensor logs, action logs, schedules, each CSV before the next query;
\* an exception ends the run at once: nothing follows it, and the summary is
\* printed only after all three CSV files were written.
C16_CollectOrder ==
    script = "collect" =>
        /\ firebase # "ok" =>
              /\ ~Happened("query") /\ ~Happened("to_csv")
              /\ rawDir = {} /\ collected = EmptyDict
        /\ \A i \in 1..Len(trace) :
              /\ CollectRank(trace[i]) > 0 =>
                    \A r \in 1..(CollectRank(trace[i]) - 1) :
                        \E j \in 1..(i - 1) : CollectRank(trace[j]) = r
              /\ \A j \in 1..(i - 1) :
                    (CollectRank(trace[i]) > 0 /\ CollectRank(trace[j]) > 0) =>
                        CollectRank(trace[j]) < CollectRank(trace[i])
              /\ trace[i][1] = "raised" => (i = Len(trace) /\ pc = "raised")
        /\ pc = "raised" => (Happened("raised") /\ exitStatus = EXIT_FAILURE)
        /\ Happened("Collection Summary") =>
              /\ ~Happened("raised")
              /\ rawDir = { CsvFile(Collections[i]) : i \in 1..Len(Collections) }

\* C16 witness: the sensor CSV was written, the action log query raised, and
\* the run ended without a schedules query.
C16_Witness ==
    /\ script = "collect" /\ pc = "raised"
    /\ Did(<< "to_csv", CsvFile("sensor_logs") >>)
    /\ Did(<< "raised", "logs", "query" >>)
    /\ ~Did(<< "query", "schedules" >>)
    /\ rawDir = { CsvFile("sensor_logs") }

\* The call of the collect function for collection number i is over
CollectCallOver(i) ==
    cur > i \/ pc \in { "f_summary", "exited", "raised" }

\* What a step leaves in storage and in Firestore: no blob is deleted, no
\* public blob loses its public access, a written system_config/ml_models
\* document keeps every field it has, and no model_versions document is lost
NothingUndone ==
    /\ \A b \in BlobNames :
          /\ blobs[b].present => blobs'[b].present
          /\ (blobs[b].present /\ blobs[b].public) => blobs'[b].public
    /\ configDoc.written =>
          /\ configDoc'.written
          /\ \A m \in DOMAIN configDoc.models :
                /\ m \in DOMAIN configDoc'.models
                /\ \A k \in DOMAIN configDoc.models[m] :
                      /\ k \in DOMAIN configDoc'.models[m]
                      /\ configDoc'.models[m][k] = configDoc.models[m][k]
    /\ versionDocs \subseteq versionDocs'

\* C17: there is no partial-failure recovery in deploy_model and deploy_tfjs:
\* a blob uploaded and made public earlier in a run stays in storage and stays
\* public when a later step of the run fails, and no step of either script
\* deletes a blob, revokes public access or reverts a Firestore document (a
\* blob disappears only when another client of the bucket removes it).
C17_NoRollback ==
    [][(script \in { "deploy", "deploy_tfjs" }) => (BlobRemoved \/ NothingUndone)]_vars

\* deploy_model made a blob public, the Firestore write then failed and the
\* run exited with a failure: the blob is still in storage and public
C17_Witness ==
    /\ script = "deploy"
    /\ pc = "exited" /\ exitStatus = EXIT_FAILURE
    /\ Happened("update_firestore_config")
    /\ ~configDoc.written
    /\ \E m \in DOMAIN model_info :
          blobs[model_info[m].path].present /\ blobs[model_info[m].path].public

\* C18: for every query result (also one with zero documents, or with
\* documents lacking userId, deviceId or timestamp) each collect function
\* writes its CSV file and returns the DataFrame, unless to_csv itself fails.
C18_EveryResultSaved ==
    script = "collect" =>
        \A i \in 1..Len(Collections) :
            LET c == Collections[i]
            IN  (/\ Did(<< "query", c >>)
                 /\ CollectCallOver(i)
                 /\ ~Did(<< "raised", c, "to_csv" >>)) =>
                    /\ CsvFile(c) \in rawDir
                    /\ c \in DOMAIN collected

---------------------------------------------------------------------------
(* Order of the artifacts over a sequence of runs *)

\* A step writes models/tflite/schedule_predictor.tflite
TfliteWritten ==
    /\ TfliteFile("schedule_predictor") \in tfliteDir'
    /\ \/ TfliteFile("schedule_predictor") \notin tfliteDir
       \/ trace' = Append(trace, << "wrote", TfliteFile("schedule_predictor") >>)

\* A step writes models/saved_models/schedule_predictor_v1
SavedModelWritten ==
    /\ "schedule_predictor" \in savedModels'
    /\ \/ "schedule_predictor" \notin savedModels
       \/ trace' = Append(trace, << "save" >>)

\* A step writes a schedule_predictor entry to system_config/ml_models
ConfigEntryWritten ==
    /\ configDoc'.written
    /\ "schedule_predictor" \in DOMAIN configDoc'.models
    /\ \/ ~configDoc.written
       \/ "schedule_predictor" \notin DOMAIN configDoc.models
       \/ configDoc'.models["schedule_predictor"] # configDoc.models["schedule_predictor"]
       \/ /\ trace' = Append(trace, << "update_firestore_config" >>)
          /\ "schedule_predictor" \in DOMAIN model_info

\* Each artifact exists only when the one before it in the pipeline was made
ArtifactsInOrder ==
    /\ TfliteFile("schedule_predictor") \in tfliteDir =>
          "schedule_predictor" \in savedModels
    /\ (configDoc.written /\ "schedule_predictor" \in DOMAIN configDoc.models) =>
          "schedule_predictor" \in savedModels

\* C15: over any sequence of runs of the training, conversion and deployment
\* scripts that starts from empty artifact directories,
\* schedule_predictor.tflite is written only by a conversion run that found
\* the saved model directory schedule_predictor_v1, that directory is written
\* only by a training run that completed training and evaluation, and
\* deploy_model writes a schedule_predictor entry to Firestore only in a run
\* in which schedule_predictor.tflite existed locally.
C15_PipelineOrder ==
    [][ /\ TfliteWritten =>
              /\ script = "convert"
              /\ "schedule_predictor" \in savedModels
              /\ Did(<< "loaded", "schedule_predictor" >>)
        /\ SavedModelWritten =>
              /\ script = "train"
              /\ Happened("train")
        /\ ConfigEntryWritten =>
              /\ script = "deploy"
              /\ "schedule_predictor" \in seenLocal
        /\ ArtifactsInOrder' ]_vars

\* The third run of a sequence is a deployment that wrote the
\* schedule_predictor entry: the earlier runs trained and converted the model
C15_Witness ==
    /\ runs = 3
    /\ script = "deploy"
    /\ "schedule_predictor" \in seenLocal
    /\ "schedule_predictor" \in savedModels
    /\ configDoc.written
    /\ "schedule_predictor" \in DOMAIN configDoc.models

---------------------------------------------------------------------------
(* What a deployment leaves of the earlier ones in system_config/ml_models *)

\* The running deployment writes the models entry of model m
EntryWrittenByRun(m) ==
    IF script = "deploy" THEN m \in DOMAIN model_info
                         ELSE m = "schedule_predictor"

\* Fields of an entry the update_firestore_config of script s does not write
FieldsNotWritten(s) ==
    IF s = "deploy" THEN { "modelUrl", "scalerUrl", "format" }
                    ELSE { "downloadUrl", "checksum", "sizeMB", "modelPath" }

\* C21: system_config/ml_models is written with merge semantics: over any
\* sequence of deploy_model and deploy_tfjs runs, a run leaves the models
\* entry of a model it did not upload unchanged, and in the entries it writes
\* the fields it does not write (modelUrl, scalerUrl, format for deploy_model;
\* downloadUrl, checksum, sizeMB, modelPath for deploy_tfjs) keep the values
\* of the last run that wrote them.
C21_MergeKeeps ==
    [][(script \in DeployScripts /\ configDoc.written) =>
          (/\ configDoc'.written
           /\ \A m \in DOMAIN configDoc.models :
                 /\ m \in DOMAIN configDoc'.models
                 /\ ~EntryWrittenByRun(m) =>
                       configDoc'.models[m] = configDoc.models[m]
                 /\ \A k \in (DOMAIN configDoc.models[m]) \cap FieldsNotWritten(script) :
                       /\ k \in DOMAIN configDoc'.models[m]
                       /\ configDoc'.models[m][k] = configDoc.models[m][k])]_vars

\* deploy_model deployed both models, then deploy_tfjs wrote its
\* schedule_predictor entry: the entry has the fields of both runs and the
\* anomaly_detector entry is still there
C21_Witness ==
    /\ runs = 2
    /\ script = "deploy_tfjs"
    /\ pc = "exited"
    /\ Happened("update_firestore_config")
    /\ configDoc.written
    /\ "anomaly_detector" \in DOMAIN configDoc.models
    /\ "schedule_predictor" \in DOMAIN configDoc.models
    /\ { "checksum", "downloadUrl", "format", "modelUrl" }
          \subseteq DOMAIN configDoc.models["schedule_predictor"]
    /\ configDoc.models["schedule_predictor"].currentVersion = "v1"

---------------------------------------------------------------------------
(* train_smart_home.py on a frame too short for one sequence *)

\* main of train_smart_home.py called create_sequences on a frame of at most
\* SEQUENCE_LENGTH rows
ShortFrameSequenced ==
    /\ script = "train_smart_home"
    /\ Happened("create_sequences")
    /\ Len(hourly_df.rows) <= seqLength

\* C22: in train_smart_home, when the hourly frame has at most SEQUENCE_LENGTH
\* rows, create_sequences returns two empty arrays without fitting the
\* scaler; main does not check the result, the run stops at the data split,
\* no model is trained and schedule_predictor_v1, scaler.pkl and
\* metadata.json are not written.
C22_ShortFrameStopsAtSplit ==
    ShortFrameSequenced =>
        /\ ~sequences.raised
        /\ sequences.X = << >> /\ sequences.y = << >>
        /\ ~sequences.fitted
        /\ pc \in { "h_split", "raised" }
        /\ pc = "raised" => (exitStatus = EXIT_FAILURE /\ Happened("split"))
        /\ ~Happened("train")
        /\ "schedule_predictor" \notin savedModels
        /\ "scaler.pkl" \notin outputFiles
        /\ "metadata.json" \notin outputFiles

\* A frame of some rows, but no more than SEQUENCE_LENGTH: the hourly features
\* were saved, create_sequences returned, and the split raised
C22_Witness ==
    /\ ShortFrameSequenced
    /\ Len(hourly_df.rows) >= 1
    /\ "hourly_features.csv" \in outputFiles
    /\ Happened("split")
    /\ pc = "raised"

---------------------------------------------------------------------------
(* Safety of what the runs publish *)

\* C19: every .tflite file copy_to_flutter_assets copied into the Flutter
\* assets during a convert_tflite.main run passed verify_tflite_model in that
\* run, and no file of a model whose conversion function returned False is
\* copied.
C19_CopiedWereVerified ==
    script = "convert" =>
        \A m \in ModelNames :
            TfliteFile(m) \in copied =>
                /\ m \in tfliteVerified
                /\ m \in DOMAIN conversion_results => conversion_results[m]

\* verify_deployment found the blob of model m in this run
VerifiedInRun(m) ==
    \E i \in Events("verify_deployment") :
        m \in DOMAIN trace[i][2] /\ trace[i][2][m] = "True"

\* C20: after a run of deploy_model.main, a model's entry in
\* system_config/ml_models has deployed: True only if verify_deployment found
\* the model's blob in storage in that run.
C20_DeployedOnlyIfVerified ==
    (script = "deploy" /\ pc \in { "exited", "raised" } /\ configDoc.written) =>
        \A m \in DOMAIN configDoc.models :
            configDoc.models[m].deployed => VerifiedInRun(m)

====
